---- MODULE Spec2Model ----
\* Model of go-bio: the transaction layer (package transaction) over a raw byte
\* store, and the memory mapping (package mmap, linux/amd64): Open, the
\* bounds-checked byte access, Lock, Unlock, Sync, Begin and Close, with the
\* kernel and the backing file as the environment.
\*
\* Go slices are modelled as records [nil, bytes]: `nil` is the Go test
\* `s == nil`, `bytes` the elements (a TLA+ sequence, 1-based; Go offsets are
\* 0-based, so Go's s[i] is bytes[i + 1]).
EXTENDS Integers, Sequences, FiniteSets, TLC

\* ------------------------------------------------------------------ bounds

\* Length of the original byte store handed to Begin.
DataLen == 2

\* Longest buffer passed to ReadAt / WriteAt.
MaxBuf == 2

\* Length of the mapped memory of the mapping.
MemLen == 2

\* math.MaxInt64, scaled to the largest integer TLC represents: the overflow
\* guards of the code compare against it exactly as written.
MaxInt64 == 2147483647

\* The byte values the inputs are drawn from (copying is value-independent).
Bytes == {0, 1}

\* Length of the backing file of the mapping.
FileLen == 1

\* mmap.MaxInt, the largest signed integer of the platform, scaled so that a
\* uintptr above it (MaxInt + 1) is an integer TLC represents.
MaxInt == 1073741823

\* os.Getpagesize(), scaled.
PageSize == 2

\* Mode (mmap.go).
ModeReadOnly == 0

ModeReadWrite == 1

ModeWriteCopy == 2

\* Flag (mmap.go).
FlagExecutable == 1

\* syscall.MAP_SHARED and syscall.MAP_PRIVATE (linux/amd64).
MAP_SHARED == 1

MAP_PRIVATE == 2

\* Length of the bytes behind a segment's driver.
StoreLen == 8

\* Longest argument list passed to a Segment method.
MaxArgs == 2

\* Number of Segment calls made on one driver.
MaxCalls == 2

\* maxUint8, scaled: a byte holds the values 0..MaxUint8, and an unsigned
\* integer of w bytes the values 0..(MaxUint8 + 1)^w - 1, so that the largest
\* uint64 is an integer TLC represents.
MaxUint8 == 3

ByteBase == MaxUint8 + 1

\* Sizes of types in bytes (segment.go).
Uint8Size == 1

Uint16Size == 2

Uint32Size == 4

Uint64Size == 8

\* ------------------------------------------------------------------ errors

Nil == "nil"

ErrClosed == "transaction: transaction closed"

ErrOutOfBounds == "transaction: out of bounds"

\* Package mmap's errors (errors.go); the transaction's share two of the names.
MmapErrBadLength == "mmap: bad length"

MmapErrBadMode == "mmap: bad mode"

MmapErrBadOffset == "mmap: bad offset"

MmapErrClosed == "mmap: mapping closed"

MmapErrLocked == "mmap: mapping already locked"

MmapErrNotLocked == "mmap: mapping is not locked"

MmapErrReadOnly == "mmap: mapping is read only"

MmapErrOutOfBounds == "mmap: out of bounds"

\* os.NewSyscallError(name, errno) for a failed system call.
SyscallError(name) == name \o ": errno"

\* A Go run-time panic (slice bounds out of range): the call does not return.
Panic == "panic: slice bounds out of range"

\* ------------------------------------------------------------------ slices

Min(a, b) == IF a < b THEN a ELSE b

\* The nil slice.
NilSlice == [nil |-> TRUE, bytes |-> <<>>]

\* make([]byte, n): n zero bytes.
Make(n) == [nil |-> FALSE, bytes |-> [i \in 1..n |-> 0]]

\* Go's s[lo:hi] on the elements.
Slice(s, lo, hi) == SubSeq(s, lo + 1, hi)

\* Go's copy(dst, src): the number of bytes it copies.
CopyN(dst, src) == Min(Len(dst), Len(src))

\* Go's copy(dst, src): dst afterwards.
Copy(dst, src) ==
    [i \in 1..Len(dst) |-> IF i <= CopyN(dst, src) THEN src[i] ELSE dst[i]]

\* Go's copy(s[lo:hi], src): s afterwards (the sub-slice shares s's memory).
CopyAt(s, lo, hi, src) ==
    [i \in 1..Len(s) |->
        IF i > lo /\ i <= lo + Min(hi - lo, Len(src)) THEN src[i - lo] ELSE s[i]]

\* ------------------------------------------------------------------ state

VARIABLES
    data,     \* the original byte store (tx.original aliases it)
    tx,       \* the transaction: [lowOffset, highOffset, snapshot]
    phase,    \* history: "none" (no Begin yet), "open", "committed", "rolledback"
    begun,    \* history: the store as it was at Begin, kept until a direct write
    shadow,   \* history: window bytes at Begin overlaid with the nil-error WriteAts
    dirty,    \* history: the store was written directly since Begin
    last,     \* history: the last call, its arguments and what it returned
    m,        \* the mapping: [writable, executable, locked, memory]
    mlast,    \* history: the last call on the mapping and what it returned
    file,     \* the backing file's bytes, as a direct read of the file sees them
    fdOpen,   \* the caller's file descriptor is open
    kern,     \* the kernel's side: the last mmap request and whether it is mapped
    mphase,   \* history: "none" (no mapping yet), "open", "closed" (Close was called)
    opened,   \* history: the mode and flags of the last Open call
    unmaps,   \* history: the number of munmap system calls issued
    written,  \* history: the offset and bytes of a WriteAt that returned nil, until
              \* the next call on the mapping
    store,    \* the bytes behind the segment (the driver's bytes)
    fix,      \* the caller's offset and the values it passes to Set, Inc and Dec
    dest,     \* the caller's variables Get and Swap point to
    slast,    \* history: the last call on the segment and what it returned
    pseg,     \* the pointer-based Segment: [offset, data], data being [Data, Len]
    fs,       \* the path OpenFile works on: whether the file exists, and history
              \* of the OpenFile calls made on it
    txs,      \* two transactions on the one store, each [tx, phase], and history:
              \* base, the window's bytes at Begin; flushed, the snapshot Commit
              \* copied; clobbered, the window had changed since Begin when Commit
              \* copied; nth, how many Commits there were up to this one
    mseg,     \* the Segment the caller got from Mapping.Segment(): whether it has
              \* one, and whether the mapping was open when it got it
    host      \* the operating system's side of the process: pinned, the last
              \* pin or unpin that succeeded was a pin; twice, a pin succeeded
              \* on pinned pages or an unpin on pages not pinned; handles, the
              \* handles Open acquired that are still open, each with the
              \* number of the Open call that acquired it; opens, the number
              \* of Open calls made on Windows

txVars == <<data, tx, phase, begun, shadow, dirty, last>>

mapVars == <<m, mlast, file, fdOpen, kern, mphase, opened, unmaps, written>>

segVars == <<store, fix, dest, slast, pseg>>

extVars == <<fs, txs, mseg, host>>

vars == <<data, tx, phase, begun, shadow, dirty, last,
          m, mlast, file, fdOpen, kern, mphase, opened, unmaps, written,
          store, fix, dest, slast, pseg, fs, txs, mseg, host>>

\* The Tx value before any Begin (no object exists; phase = "none").
NoTx == [lowOffset |-> 0, highOffset |-> 0, snapshot |-> NilSlice]

\* A call as the caller sees it: the offset and len(buf) passed, the count and
\* error returned, and (ReadAt) the caller's buffer afterwards.
Call(op, offset, len, n, err, out) ==
    [op |-> op, offset |-> offset, len |-> len, n |-> n, err |-> err, out |-> out]

\* ------------------------------------------------------------------ transaction
\* Each operation is a function of the heap it can reach (the Tx fields, and the
\* original the Tx aliases) and its arguments, to that heap afterwards and the
\* values returned.

BeginErr(d) == [err |-> ErrOutOfBounds, tx |-> NoTx, original |-> d]

\* A Begin that takes the store from the offset to its end, whatever the length.
BeginToEnd(d, offset, length) ==
    IF length = 0 \/ length > MaxInt64
    THEN BeginErr(d)
    ELSE IF offset < 0 \/ offset >= Len(d) \/ offset > MaxInt64 - length
    THEN BeginErr(d)
    ELSE IF offset + length > Len(d)
    THEN BeginErr(d)
    ELSE [err |-> Nil,
          tx |-> [lowOffset |-> offset,
                  highOffset |-> Len(d),
                  snapshot |-> [nil |-> FALSE,
                                bytes |-> Slice(d, offset, Len(d))]],
          original |-> d]

\* transaction.Begin(data, offset, length): error, the Tx, and data afterwards.
Begin(d, offset, length) ==
    IF length = 0 \/ length > MaxInt64
    THEN BeginErr(d)
    ELSE IF offset < 0 \/ offset >= Len(d) \/ offset > MaxInt64 - length
    THEN BeginErr(d)
    ELSE IF offset + length > Len(d)
    THEN BeginErr(d)
    ELSE [err |-> Nil,
          tx |-> [lowOffset |-> offset,
                  highOffset |-> offset + length,
                  snapshot |-> [nil |-> FALSE,
                                bytes |-> Copy(Make(length).bytes,
                                               Slice(d, offset, offset + length))]],
          original |-> d]

\* (*Tx).Offset()
Offset(t) == t.lowOffset

\* (*Tx).Length()
Length(t) == Len(t.snapshot.bytes)

\* (*Tx).offset(offset, length): the relative offset, or the error.
TxOffset(t, offset, length) ==
    IF offset < t.lowOffset
    THEN [off |-> 0, err |-> ErrOutOfBounds]
    ELSE LET rel == offset - t.lowOffset IN
         IF rel > MaxInt64 - length \/ rel + length > t.highOffset
         THEN [off |-> 0, err |-> ErrOutOfBounds]
         ELSE [off |-> rel, err |-> Nil]

\* What a Tx method leaves behind: the count and error returned, the caller's
\* buffer, the original and tx.snapshot afterwards.
Res(n, err, buf, original, snapshot) ==
    [n |-> n, err |-> err, buf |-> buf, original |-> original, snapshot |-> snapshot]

\* A ReadAt that reads through to the original instead of the snapshot.
TxReadAtOriginal(t, original, buf, offset) ==
    IF t.snapshot.nil
    THEN Res(0, ErrClosed, buf, original, t.snapshot)
    ELSE LET o == TxOffset(t, offset, Len(buf)) IN
         IF o.err # Nil
         THEN Res(0, o.err, buf, original, t.snapshot)
         ELSE IF o.off > Len(t.snapshot.bytes)
         THEN Res(0, Panic, buf, original, t.snapshot)
         ELSE LET src == Slice(original, offset, t.highOffset) IN
              Res(CopyN(buf, src), Nil, Copy(buf, src), original, t.snapshot)

\* (*Tx).ReadAt(buf, offset).
\* tx.snapshot[off:] panics when off > len(tx.snapshot).
TxReadAt(t, original, buf, offset) ==
    IF t.snapshot.nil
    THEN Res(0, ErrClosed, buf, original, t.snapshot)
    ELSE LET o == TxOffset(t, offset, Len(buf)) IN
         IF o.err # Nil
         THEN Res(0, o.err, buf, original, t.snapshot)
         ELSE IF o.off > Len(t.snapshot.bytes)
         THEN Res(0, Panic, buf, original, t.snapshot)
         ELSE LET src == Slice(t.snapshot.bytes, o.off, Len(t.snapshot.bytes)) IN
              Res(CopyN(buf, src), Nil, Copy(buf, src), original, t.snapshot)

\* A WriteAt that also writes through to the original.
TxWriteAtThrough(t, original, buf, offset) ==
    IF t.snapshot.nil
    THEN Res(0, ErrClosed, buf, original, t.snapshot)
    ELSE LET o == TxOffset(t, offset, Len(buf)) IN
         IF o.err # Nil
         THEN Res(0, o.err, buf, original, t.snapshot)
         ELSE IF o.off > Len(t.snapshot.bytes)
         THEN Res(0, Panic, buf, original, t.snapshot)
         ELSE LET len == Len(t.snapshot.bytes)
                  dst == Slice(t.snapshot.bytes, o.off, len) IN
              Res(CopyN(dst, buf), Nil, buf,
                  CopyAt(original, offset, t.highOffset, buf),
                  [nil |-> FALSE, bytes |-> CopyAt(t.snapshot.bytes, o.off, len, buf)])

\* (*Tx).WriteAt(buf, offset).
\* tx.snapshot[off:] panics when off > len(tx.snapshot).
TxWriteAt(t, original, buf, offset) ==
    IF t.snapshot.nil
    THEN Res(0, ErrClosed, buf, original, t.snapshot)
    ELSE LET o == TxOffset(t, offset, Len(buf)) IN
         IF o.err # Nil
         THEN Res(0, o.err, buf, original, t.snapshot)
         ELSE IF o.off > Len(t.snapshot.bytes)
         THEN Res(0, Panic, buf, original, t.snapshot)
         ELSE LET len == Len(t.snapshot.bytes)
                  dst == Slice(t.snapshot.bytes, o.off, len) IN
              Res(CopyN(dst, buf), Nil, buf, original,
                  [nil |-> FALSE, bytes |-> CopyAt(t.snapshot.bytes, o.off, len, buf)])

\* A Commit that flushes to the start of the original.
TxCommitAtZero(t, original) ==
    IF t.snapshot.nil
    THEN Res(0, ErrClosed, <<>>, original, t.snapshot)
    ELSE Res(0, Nil, <<>>,
             CopyAt(original, 0, t.highOffset - t.lowOffset, t.snapshot.bytes),
             NilSlice)

\* A Commit that releases the snapshot without copying it.
TxCommitDrop(t, original) ==
    IF t.snapshot.nil
    THEN Res(0, ErrClosed, <<>>, original, t.snapshot)
    ELSE Res(0, Nil, <<>>, original, NilSlice)

\* A Commit that forgets to release the snapshot.
TxCommitKeepSnapshot(t, original) ==
    IF t.snapshot.nil
    THEN Res(0, ErrClosed, <<>>, original, t.snapshot)
    ELSE Res(0, Nil, <<>>,
             CopyAt(original, t.lowOffset, t.highOffset, t.snapshot.bytes),
             t.snapshot)

\* A Commit that leaves the snapshot where the store was.
TxCommitReplace(t, original) ==
    IF t.snapshot.nil
    THEN Res(0, ErrClosed, <<>>, original, t.snapshot)
    ELSE Res(0, Nil, <<>>, t.snapshot.bytes, NilSlice)

\* (*Tx).Commit().
TxCommit(t, original) ==
    IF t.snapshot.nil
    THEN Res(0, ErrClosed, <<>>, original, t.snapshot)
    ELSE Res(0, Nil, <<>>,
             CopyAt(original, t.lowOffset, t.highOffset, t.snapshot.bytes),
             NilSlice)

\* A Rollback that flushes the snapshot as Commit does.
TxRollbackFlush(t, original) ==
    IF t.snapshot.nil
    THEN Res(0, ErrClosed, <<>>, original, t.snapshot)
    ELSE Res(0, Nil, <<>>,
             CopyAt(original, t.lowOffset, t.highOffset, t.snapshot.bytes),
             NilSlice)

\* A Rollback that forgets to release the snapshot.
TxRollbackKeepSnapshot(t, original) ==
    IF t.snapshot.nil
    THEN Res(0, ErrClosed, <<>>, original, t.snapshot)
    ELSE Res(0, Nil, <<>>, original, t.snapshot)

\* (*Tx).Rollback().
TxRollback(t, original) ==
    IF t.snapshot.nil
    THEN Res(0, ErrClosed, <<>>, original, t.snapshot)
    ELSE Res(0, Nil, <<>>, original, NilSlice)

\* ------------------------------------------------------------------ mapping
\* The system calls are the environment: each either succeeds or fails, and a
\* method returns the system calls it issued along with its results.

\* Mapping{}: the zero value Close leaves behind.
ZeroMapping ==
    [writable |-> FALSE, executable |-> FALSE, locked |-> FALSE, memory |-> NilSlice]

\* No WriteAt to read back.
NoWrite == [offset |-> 0, buf |-> <<>>, some |-> FALSE]

\* The kernel's side before any mmap request.
NoKern == [mapped |-> FALSE, flags |-> 0, offset |-> 0, length |-> 0, inner |-> 0]

\* x & FlagExecutable, the lowest bit of x.
AndFlagExecutable(x) == x % 2

\* The mmap system call behind the wrapper mmap(addr, length, prot, flags, fd,
\* offset): it fails on a closed descriptor, a zero length and an offset that
\* is no multiple of the page size, and may fail for any other reason (~ok);
\* otherwise the kernel maps `length` bytes of the file from byte `offset` on
\* (bytes past the end of the file read as zero).
Mmap(f, fd, length, flags, offset, ok) ==
    IF offset < 0 \/ ~fd \/ length = 0 \/ offset % PageSize # 0 \/ ~ok
    THEN [err |-> "EINVAL", bytes |-> <<>>]
    ELSE [err |-> Nil,
          bytes |-> [i \in 1..length |->
                        IF offset + i <= Len(f) THEN f[offset + i] ELSE 0]]

\* What Open leaves behind: the error, the mapping (ZeroMapping for the nil
\* *Mapping), the system calls issued and the kernel's side afterwards.
OpenRes(err, mp, sys, k) == [err |-> err, m |-> mp, sys |-> sys, kern |-> k]

\* An Open that checks nothing before it maps.
MapOpenUnchecked(f, fd, k, offset, length, mode, flags, ok) ==
    LET inner == offset % PageSize
        req == [mapped |-> FALSE, flags |-> MAP_SHARED,
                offset |-> offset \div PageSize,
                length |-> inner + length, inner |-> inner]
        r == IF length > MaxInt THEN [err |-> "EINVAL", bytes |-> <<>>]
             ELSE Mmap(f, fd, req.length, req.flags, req.offset, ok)
    IN  IF r.err # Nil
        THEN OpenRes(SyscallError("mmap"), ZeroMapping, <<"mmap">>, req)
        ELSE OpenRes(Nil,
                     [writable |-> mode > ModeReadOnly,
                      executable |-> AndFlagExecutable(flags) # 0,
                      locked |-> FALSE,
                      memory |-> [nil |-> FALSE,
                                  bytes |-> Slice(r.bytes, inner, inner + length)]],
                     <<"mmap">>, [req EXCEPT !.mapped = TRUE])

\* Open(fd, offset, length, mode, flags) on linux/amd64; ok: the kernel grants
\* the mmap request. The mode ModeWriteCopy overwrites the caller's `flags`
\* (not mmapFlags) with MAP_PRIVATE, and the page index outerOffset is what is
\* passed to mmap as the file offset.
MapOpen(f, fd, k, offset, length, mode, flags, ok) ==
    IF offset < 0
    THEN OpenRes(MmapErrBadOffset, ZeroMapping, <<>>, k)
    ELSE IF length > MaxInt
    THEN OpenRes(MmapErrBadLength, ZeroMapping, <<>>, k)
    ELSE IF mode < ModeReadOnly \/ mode > ModeWriteCopy
    THEN OpenRes(MmapErrBadMode, ZeroMapping, <<>>, k)
    ELSE LET writable == mode > ModeReadOnly
             flags2 == IF mode = ModeWriteCopy THEN MAP_PRIVATE ELSE flags
             executable == AndFlagExecutable(flags2) # 0
             mmapFlags == MAP_SHARED
             outerOffset == offset \div PageSize
             innerOffset == offset % PageSize
             alignedLength == innerOffset + length
             req == [mapped |-> FALSE, flags |-> mmapFlags, offset |-> outerOffset,
                     length |-> alignedLength, inner |-> innerOffset]
             r == Mmap(f, fd, alignedLength, mmapFlags, outerOffset, ok)
         IN  IF r.err # Nil
             THEN OpenRes(SyscallError("mmap"), ZeroMapping, <<"mmap">>, req)
             ELSE OpenRes(Nil,
                          [writable |-> writable,
                           executable |-> executable,
                           locked |-> FALSE,
                           memory |-> [nil |-> FALSE,
                                       bytes |-> Slice(r.bytes, innerOffset,
                                                       innerOffset + length)]],
                          <<"mmap">>, [req EXCEPT !.mapped = TRUE])

\* The file after the kernel carried the bytes of a shared mapping through to
\* it: mem is the exposed memory, which starts at file byte k.offset + k.inner.
Carry(f, k, mem) ==
    IF k.mapped /\ k.flags = MAP_SHARED
    THEN [p \in 1..Len(f) |->
            LET i == p - (k.offset + k.inner) IN
            IF i >= 1 /\ i <= Len(mem) THEN mem[i] ELSE f[p]]
    ELSE f

\* A call on the mapping as the caller sees it, and the system calls it issued.
MapCall(op, offset, len, n, err, out, sys) ==
    [op |-> op, offset |-> offset, len |-> len, n |-> n, err |-> err,
     out |-> out, sys |-> sys]

\* What a Mapping method leaves behind: the count and error returned, the
\* caller's buffer and the mapping afterwards, the system calls issued.
MapRes(n, err, buf, mp, sys) ==
    [n |-> n, err |-> err, buf |-> buf, m |-> mp, sys |-> sys]

\* An access check that looks at the offset alone.
MapAccessOffsetOnly(mp, offset, length) ==
    IF offset < 0 \/ offset >= Len(mp.memory.bytes)
    THEN MmapErrOutOfBounds
    ELSE Nil

\* (*Mapping).access(offset, length)
MapAccess(mp, offset, length) ==
    IF \/ offset < 0
       \/ offset > MaxInt64 - length
       \/ offset + length > Len(mp.memory.bytes)
    THEN MmapErrOutOfBounds
    ELSE Nil

\* A ReadAt that always reads from the start of the mapped memory.
MapReadAtFromStart(mp, buf, offset) ==
    IF mp.memory.nil
    THEN MapRes(0, MmapErrClosed, buf, mp, <<>>)
    ELSE IF MapAccess(mp, offset, Len(buf)) # Nil
    THEN MapRes(0, MapAccess(mp, offset, Len(buf)), buf, mp, <<>>)
    ELSE LET src == mp.memory.bytes IN
         MapRes(CopyN(buf, src), Nil, Copy(buf, src), mp, <<>>)

\* (*Mapping).ReadAt(buf, offset)
MapReadAt(mp, buf, offset) ==
    IF mp.memory.nil
    THEN MapRes(0, MmapErrClosed, buf, mp, <<>>)
    ELSE IF MapAccess(mp, offset, Len(buf)) # Nil
    THEN MapRes(0, MapAccess(mp, offset, Len(buf)), buf, mp, <<>>)
    ELSE LET src == Slice(mp.memory.bytes, offset, Len(mp.memory.bytes)) IN
         MapRes(CopyN(buf, src), Nil, Copy(buf, src), mp, <<>>)

\* (*Mapping).WriteAt(buf, offset)
MapWriteAt(mp, buf, offset) ==
    IF mp.memory.nil
    THEN MapRes(0, MmapErrClosed, buf, mp, <<>>)
    ELSE IF ~mp.writable
    THEN MapRes(0, MmapErrReadOnly, buf, mp, <<>>)
    ELSE IF MapAccess(mp, offset, Len(buf)) # Nil
    THEN MapRes(0, MapAccess(mp, offset, Len(buf)), buf, mp, <<>>)
    ELSE LET len == Len(mp.memory.bytes)
             dst == Slice(mp.memory.bytes, offset, len) IN
         MapRes(CopyN(dst, buf), Nil, buf,
                [mp EXCEPT !.memory.bytes = CopyAt(mp.memory.bytes, offset, len, buf)],
                <<>>)

\* A Lock that does not look at the locked flag.
MapLockAgain(mp, ok) ==
    IF mp.memory.nil
    THEN MapRes(0, MmapErrClosed, <<>>, mp, <<>>)
    ELSE IF ~ok
    THEN MapRes(0, SyscallError("mlock"), <<>>, mp, <<"mlock">>)
    ELSE MapRes(0, Nil, <<>>, [mp EXCEPT !.locked = TRUE], <<"mlock">>)

\* A Lock that takes the pages for pinned whatever mlock returns.
MapLockOptimistic(mp, ok) ==
    IF mp.memory.nil
    THEN MapRes(0, MmapErrClosed, <<>>, mp, <<>>)
    ELSE IF mp.locked
    THEN MapRes(0, MmapErrLocked, <<>>, mp, <<>>)
    ELSE MapRes(0, IF ok THEN Nil ELSE SyscallError("mlock"), <<>>,
                [mp EXCEPT !.locked = TRUE], <<"mlock">>)

\* (*Mapping).Lock(); ok: mlock succeeds.
MapLock(mp, ok) ==
    IF mp.memory.nil
    THEN MapRes(0, MmapErrClosed, <<>>, mp, <<>>)
    ELSE IF mp.locked
    THEN MapRes(0, MmapErrLocked, <<>>, mp, <<>>)
    ELSE IF ~ok
    THEN MapRes(0, SyscallError("mlock"), <<>>, mp, <<"mlock">>)
    ELSE MapRes(0, Nil, <<>>, [mp EXCEPT !.locked = TRUE], <<"mlock">>)

\* An Unlock that tests the locked flag before the closed mapping.
MapUnlockClosed(mp, ok) ==
    IF ~mp.locked
    THEN MapRes(0, MmapErrNotLocked, <<>>, mp, <<>>)
    ELSE IF mp.memory.nil
    THEN MapRes(0, MmapErrClosed, <<>>, mp, <<>>)
    ELSE IF ~ok
    THEN MapRes(0, SyscallError("munlock"), <<>>, mp, <<"munlock">>)
    ELSE MapRes(0, Nil, <<>>, [mp EXCEPT !.locked = FALSE], <<"munlock">>)

\* (*Mapping).Unlock(); ok: munlock succeeds.
MapUnlock(mp, ok) ==
    IF mp.memory.nil
    THEN MapRes(0, MmapErrClosed, <<>>, mp, <<>>)
    ELSE IF ~mp.locked
    THEN MapRes(0, MmapErrNotLocked, <<>>, mp, <<>>)
    ELSE IF ~ok
    THEN MapRes(0, SyscallError("munlock"), <<>>, mp, <<"munlock">>)
    ELSE MapRes(0, Nil, <<>>, [mp EXCEPT !.locked = FALSE], <<"munlock">>)

\* A Sync that flushes whatever the mode.
MapSyncAnyMode(mp, ok) ==
    IF mp.memory.nil
    THEN MapRes(0, MmapErrClosed, <<>>, mp, <<>>)
    ELSE MapRes(0, IF ok THEN Nil ELSE SyscallError("msync"), <<>>, mp, <<"msync">>)

\* (*Mapping).Sync(); ok: msync succeeds.
MapSync(mp, ok) ==
    IF mp.memory.nil
    THEN MapRes(0, MmapErrClosed, <<>>, mp, <<>>)
    ELSE IF ~mp.writable
    THEN MapRes(0, MmapErrReadOnly, <<>>, mp, <<>>)
    ELSE MapRes(0, IF ok THEN Nil ELSE SyscallError("msync"), <<>>, mp, <<"msync">>)

\* A Close that leaves the mapping as it is when munmap fails.
MapCloseKeepOnFailure(mp, syncOk, unlockOk, unmapOk) ==
    IF mp.memory.nil
    THEN MapRes(0, MmapErrClosed, <<>>, mp, <<>>)
    ELSE LET s == IF mp.writable
                  THEN MapSync(mp, syncOk)
                  ELSE MapRes(0, Nil, <<>>, mp, <<>>)
             u == IF s.m.locked
                  THEN MapUnlock(s.m, unlockOk)
                  ELSE MapRes(0, Nil, <<>>, s.m, <<>>)
             errs == (IF s.err # Nil THEN <<s.err>> ELSE <<>>)
                     \o (IF u.err # Nil THEN <<u.err>> ELSE <<>>)
                     \o (IF unmapOk THEN <<>> ELSE <<SyscallError("munmap")>>)
         IN  MapRes(0, IF Len(errs) > 0 THEN errs[1] ELSE Nil, <<>>,
                    IF unmapOk THEN ZeroMapping ELSE u.m,
                    s.sys \o u.sys \o <<"munmap">>)

\* A Close that returns at the first step that fails.
MapCloseStopAtFirst(mp, syncOk, unlockOk, unmapOk) ==
    IF mp.memory.nil
    THEN MapRes(0, MmapErrClosed, <<>>, mp, <<>>)
    ELSE LET s == IF mp.writable
                  THEN MapSync(mp, syncOk)
                  ELSE MapRes(0, Nil, <<>>, mp, <<>>)
             u == IF s.m.locked
                  THEN MapUnlock(s.m, unlockOk)
                  ELSE MapRes(0, Nil, <<>>, s.m, <<>>)
         IN  IF s.err # Nil
             THEN MapRes(0, s.err, <<>>, s.m, s.sys)
             ELSE IF u.err # Nil
             THEN MapRes(0, u.err, <<>>, u.m, s.sys \o u.sys)
             ELSE MapRes(0, IF unmapOk THEN Nil ELSE SyscallError("munmap"), <<>>,
                         ZeroMapping, s.sys \o u.sys \o <<"munmap">>)

\* A Close that unpins before it flushes.
MapCloseUnlockFirst(mp, syncOk, unlockOk, unmapOk) ==
    IF mp.memory.nil
    THEN MapRes(0, MmapErrClosed, <<>>, mp, <<>>)
    ELSE LET u == IF mp.locked
                  THEN MapUnlock(mp, unlockOk)
                  ELSE MapRes(0, Nil, <<>>, mp, <<>>)
             s == IF u.m.writable
                  THEN MapSync(u.m, syncOk)
                  ELSE MapRes(0, Nil, <<>>, u.m, <<>>)
             errs == (IF u.err # Nil THEN <<u.err>> ELSE <<>>)
                     \o (IF s.err # Nil THEN <<s.err>> ELSE <<>>)
                     \o (IF unmapOk THEN <<>> ELSE <<SyscallError("munmap")>>)
         IN  MapRes(0, IF Len(errs) > 0 THEN errs[1] ELSE Nil, <<>>,
                    ZeroMapping, u.sys \o s.sys \o <<"munmap">>)

\* (*Mapping).Close(): Sync if writable, Unlock if locked, munmap, then the
\* mapping is zeroed; the first error met is returned.
MapClose(mp, syncOk, unlockOk, unmapOk) ==
    IF mp.memory.nil
    THEN MapRes(0, MmapErrClosed, <<>>, mp, <<>>)
    ELSE LET s == IF mp.writable
                  THEN MapSync(mp, syncOk)
                  ELSE MapRes(0, Nil, <<>>, mp, <<>>)
             u == IF s.m.locked
                  THEN MapUnlock(s.m, unlockOk)
                  ELSE MapRes(0, Nil, <<>>, s.m, <<>>)
             errs == (IF s.err # Nil THEN <<s.err>> ELSE <<>>)
                     \o (IF u.err # Nil THEN <<u.err>> ELSE <<>>)
                     \o (IF unmapOk THEN <<>> ELSE <<SyscallError("munmap")>>)
         IN  MapRes(0, IF Len(errs) > 0 THEN errs[1] ELSE Nil, <<>>,
                    ZeroMapping, s.sys \o u.sys \o <<"munmap">>)

\* (*Mapping).Begin(offset, length): the error and the transaction over the
\* mapped memory.
MapBegin(mp, offset, length) ==
    IF mp.memory.nil
    THEN [err |-> MmapErrClosed, tx |-> NoTx, original |-> mp.memory.bytes]
    ELSE IF ~mp.writable
    THEN [err |-> MmapErrReadOnly, tx |-> NoTx, original |-> mp.memory.bytes]
    ELSE Begin(mp.memory.bytes, offset, length)

\* ------------------------------------------------------------------ segment
\* Package segment over a data access driver (segment.go): Get, Set, Swap, Inc
\* and Dec walk their arguments in order, one driver call or two per argument.
\* A Go value passed in the variadic list is a record [type, value]; for Get
\* and Swap it is the variable the pointer refers to.

\* The error of the test driver.
ErrTestUnavailable == "test: data not available"

SegErrUnknown == "segment: unknown value"

\* The types the type switches know, and one they do not.
UintTypes == {"uint8", "uint16", "uint32", "uint64"}

ArgTypes == UintTypes \cup {"int"}

SizeOf(t) ==
    CASE t = "uint8" -> Uint8Size
      [] t = "uint16" -> Uint16Size
      [] t = "uint32" -> Uint32Size
      [] t = "uint64" -> Uint64Size
      [] OTHER -> 0

RECURSIVE Pow(_, _)
Pow(b, e) == IF e = 0 THEN 1 ELSE b * Pow(b, e - 1)

\* The number of values of an unsigned integer of w bytes (2^(8w) in Go).
Modulus(w) == Pow(ByteBase, w)

\* binary.BigEndian.PutUint16/32/64(buf, v), and buf[0] = v for one byte.
BigEndianPut(w, v) ==
    [i \in 1..w |-> (v \div Pow(ByteBase, w - i)) % ByteBase]

\* binary.BigEndian.Uint16/32/64(buf), and buf[0] for one byte.
BigEndianUint(buf) ==
    LET F[i \in 0..Len(buf)] ==
            IF i = 0 THEN 0 ELSE F[i - 1] * ByteBase + buf[i]
    IN  F[Len(buf)]

\* What a driver call leaves behind: the count and error returned, the
\* caller's buffer and the driver's bytes afterwards.
DrvRes(n, err, buf, d) == [n |-> n, err |-> err, buf |-> buf, d |-> d]

\* testDriver.ReadAt(buf, offset)
TestDriverReadAt(d, buf, offset) ==
    IF offset < 0 \/ offset >= Len(d)
    THEN DrvRes(0, ErrTestUnavailable, buf, d)
    ELSE LET src == Slice(d, offset, Len(d))
             n == CopyN(buf, src)
         IN  DrvRes(n, IF n < Len(buf) THEN ErrTestUnavailable ELSE Nil,
                    Copy(buf, src), d)

\* testDriver.WriteAt(buf, offset): a short copy is still a copy.
TestDriverWriteAt(d, buf, offset) ==
    IF offset < 0 \/ offset >= Len(d)
    THEN DrvRes(0, ErrTestUnavailable, buf, d)
    ELSE LET n == CopyN(Slice(d, offset, Len(d)), buf)
         IN  DrvRes(n, IF n < Len(buf) THEN ErrTestUnavailable ELSE Nil,
                    buf, CopyAt(d, offset, Len(d), buf))

\* The legacy mapping's ErrUnavailable: data not available.
MmapErrUnavailable == "mmap: data not available"

\* A ReadAt that does not look whether the mapping is closed.
DriverMapReadAtUnchecked(mp, buf, offset) ==
    IF offset < 0 \/ offset >= Len(mp.memory.bytes)
    THEN MapRes(0, MmapErrUnavailable, buf, mp, <<>>)
    ELSE LET src == Slice(mp.memory.bytes, offset, Len(mp.memory.bytes))
             n == CopyN(buf, src)
         IN  MapRes(n, IF n < Len(buf) THEN MmapErrUnavailable ELSE Nil,
                    Copy(buf, src), mp, <<>>)

\* (*Mapping).ReadAt(buf, offset) of the mapping that is its Segment's driver:
\* what there is to read is read, and too little of it is ErrUnavailable.
DriverMapReadAt(mp, buf, offset) ==
    IF mp.memory.nil
    THEN MapRes(0, MmapErrClosed, buf, mp, <<>>)
    ELSE IF offset < 0 \/ offset >= Len(mp.memory.bytes)
    THEN MapRes(0, MmapErrUnavailable, buf, mp, <<>>)
    ELSE LET src == Slice(mp.memory.bytes, offset, Len(mp.memory.bytes))
             n == CopyN(buf, src)
         IN  MapRes(n, IF n < Len(buf) THEN MmapErrUnavailable ELSE Nil,
                    Copy(buf, src), mp, <<>>)

\* (*Mapping).WriteAt(buf, offset) of the mapping that is its Segment's driver.
DriverMapWriteAt(mp, buf, offset) ==
    IF mp.memory.nil
    THEN MapRes(0, MmapErrClosed, buf, mp, <<>>)
    ELSE IF ~mp.writable
    THEN MapRes(0, MmapErrReadOnly, buf, mp, <<>>)
    ELSE IF offset < 0 \/ offset >= Len(mp.memory.bytes)
    THEN MapRes(0, MmapErrUnavailable, buf, mp, <<>>)
    ELSE LET len == Len(mp.memory.bytes)
             n == CopyN(Slice(mp.memory.bytes, offset, len), buf)
         IN  MapRes(n, IF n < Len(buf) THEN MmapErrUnavailable ELSE Nil, buf,
                    [mp EXCEPT !.memory.bytes = CopyAt(mp.memory.bytes, offset, len, buf)],
                    <<>>)

\* Segment.driver: the testDriver of the segment tests, or, once there is a
\* mapping, the Mapping whose Segment() made the Segment.
SegDriver == IF mphase = "none" THEN "testDriver" ELSE "Mapping"

\* seg.driver.ReadAt(buf, offset); d is the driver's bytes (the mapped memory
\* when the driver is the mapping, which is reached through the pointer the
\* Segment holds).
DriverReadAt(d, buf, offset) ==
    IF SegDriver = "testDriver"
    THEN TestDriverReadAt(d, buf, offset)
    ELSE LET r == DriverMapReadAt([m EXCEPT !.memory.bytes = d], buf, offset)
         IN  DrvRes(r.n, r.err, r.buf, r.m.memory.bytes)

\* seg.driver.WriteAt(buf, offset)
DriverWriteAt(d, buf, offset) ==
    IF SegDriver = "testDriver"
    THEN TestDriverWriteAt(d, buf, offset)
    ELSE LET r == DriverMapWriteAt([m EXCEPT !.memory.bytes = d], buf, offset)
         IN  DrvRes(r.n, r.err, r.buf, r.m.memory.bytes)

\* A driver call as the driver sees it.
DrvCall(op, offset, len) == [op |-> op, offset |-> offset, len |-> len]

\* What one case of a type switch leaves behind: the error it returns (Nil when
\* the loop goes on), the driver's bytes, the argument's variable, and the
\* driver calls made.
SlotRes(err, d, slot, calls) ==
    [err |-> err, d |-> d, slot |-> slot, calls |-> calls]

\* A Get that decodes the least significant byte first.
GetSlotReversed(d, slot, offset) ==
    IF slot.type \notin UintTypes
    THEN SlotRes(SegErrUnknown, d, slot, <<>>)
    ELSE LET w == SizeOf(slot.type)
             r == DriverReadAt(d, Make(w).bytes, offset)
             c == <<DrvCall("ReadAt", offset, w)>>
         IN  IF r.err # Nil
             THEN SlotRes(r.err, d, slot, c)
             ELSE SlotRes(Nil, d,
                          [slot EXCEPT !.value =
                              BigEndianUint([i \in 1..w |-> r.buf[w + 1 - i]])],
                          c)

\* One case of Get: read the bytes, decode them into the variable.
GetSlot(d, slot, offset) ==
    IF slot.type \notin UintTypes
    THEN SlotRes(SegErrUnknown, d, slot, <<>>)
    ELSE LET w == SizeOf(slot.type)
             r == DriverReadAt(d, Make(w).bytes, offset)
             c == <<DrvCall("ReadAt", offset, w)>>
         IN  IF r.err # Nil
             THEN SlotRes(r.err, d, slot, c)
             ELSE SlotRes(Nil, d, [slot EXCEPT !.value = BigEndianUint(r.buf)], c)

\* A Set that aligns every slot to its own width.
SetSlotAligned(d, slot, offset) ==
    IF slot.type \notin UintTypes
    THEN SlotRes(SegErrUnknown, d, slot, <<>>)
    ELSE LET w == SizeOf(slot.type)
             at == ((offset + w - 1) \div w) * w
             r == DriverWriteAt(d, BigEndianPut(w, slot.value), at)
         IN  SlotRes(r.err, r.d, slot, <<DrvCall("WriteAt", at, w)>>)

\* One case of Set: encode the value, write the bytes.
SetSlot(d, slot, offset) ==
    IF slot.type \notin UintTypes
    THEN SlotRes(SegErrUnknown, d, slot, <<>>)
    ELSE LET w == SizeOf(slot.type)
             r == DriverWriteAt(d, BigEndianPut(w, slot.value), offset)
         IN  SlotRes(r.err, r.d, slot, <<DrvCall("WriteAt", offset, w)>>)

\* A Swap that writes back what it has just read.
SwapSlotKeep(d, slot, offset) ==
    IF slot.type \notin UintTypes
    THEN SlotRes(SegErrUnknown, d, slot, <<>>)
    ELSE LET w == SizeOf(slot.type)
             r == DriverReadAt(d, Make(w).bytes, offset)
             rd == DrvCall("ReadAt", offset, w)
         IN  IF r.err # Nil
             THEN SlotRes(r.err, d, slot, <<rd>>)
             ELSE LET x == DriverWriteAt(d, r.buf, offset)
                  IN  SlotRes(x.err, x.d,
                              [slot EXCEPT !.value = BigEndianUint(r.buf)],
                              <<rd, DrvCall("WriteAt", offset, w)>>)

\* One case of Swap: read the bytes, give the variable the stored value, write
\* the variable's old value (the variable is assigned before the write).
SwapSlot(d, slot, offset) ==
    IF slot.type \notin UintTypes
    THEN SlotRes(SegErrUnknown, d, slot, <<>>)
    ELSE LET w == SizeOf(slot.type)
             r == DriverReadAt(d, Make(w).bytes, offset)
             rd == DrvCall("ReadAt", offset, w)
         IN  IF r.err # Nil
             THEN SlotRes(r.err, d, slot, <<rd>>)
             ELSE LET x == DriverWriteAt(d, BigEndianPut(w, slot.value), offset)
                  IN  SlotRes(x.err, x.d,
                              [slot EXCEPT !.value = BigEndianUint(r.buf)],
                              <<rd, DrvCall("WriteAt", offset, w)>>)

\* An Inc that stops at the largest value instead of wrapping.
IncSlotSaturating(d, slot, offset) ==
    IF slot.type \notin UintTypes
    THEN SlotRes(SegErrUnknown, d, slot, <<>>)
    ELSE LET w == SizeOf(slot.type)
             r == DriverReadAt(d, Make(w).bytes, offset)
             rd == DrvCall("ReadAt", offset, w)
         IN  IF r.err # Nil
             THEN SlotRes(r.err, d, slot, <<rd>>)
             ELSE LET v == Min(BigEndianUint(r.buf) + slot.value, Modulus(w) - 1)
                      x == DriverWriteAt(d, BigEndianPut(w, v), offset)
                  IN  SlotRes(x.err, x.d, slot,
                              <<rd, DrvCall("WriteAt", offset, w)>>)

\* One case of Inc: read, add the delta in the unsigned type, write.
IncSlot(d, slot, offset) ==
    IF slot.type \notin UintTypes
    THEN SlotRes(SegErrUnknown, d, slot, <<>>)
    ELSE LET w == SizeOf(slot.type)
             r == DriverReadAt(d, Make(w).bytes, offset)
             rd == DrvCall("ReadAt", offset, w)
         IN  IF r.err # Nil
             THEN SlotRes(r.err, d, slot, <<rd>>)
             ELSE LET v == (BigEndianUint(r.buf) + slot.value) % Modulus(w)
                      x == DriverWriteAt(d, BigEndianPut(w, v), offset)
                  IN  SlotRes(x.err, x.d, slot,
                              <<rd, DrvCall("WriteAt", offset, w)>>)

\* One case of Dec: read, subtract the delta in the unsigned type, write.
DecSlot(d, slot, offset) ==
    IF slot.type \notin UintTypes
    THEN SlotRes(SegErrUnknown, d, slot, <<>>)
    ELSE LET w == SizeOf(slot.type)
             r == DriverReadAt(d, Make(w).bytes, offset)
             rd == DrvCall("ReadAt", offset, w)
         IN  IF r.err # Nil
             THEN SlotRes(r.err, d, slot, <<rd>>)
             ELSE LET v == (BigEndianUint(r.buf) + Modulus(w) - slot.value)
                                % Modulus(w)
                      x == DriverWriteAt(d, BigEndianPut(w, v), offset)
                  IN  SlotRes(x.err, x.d, slot,
                              <<rd, DrvCall("WriteAt", offset, w)>>)

SlotStep(op, d, slot, offset) ==
    CASE op = "Get" -> GetSlot(d, slot, offset)
      [] op = "Set" -> SetSlot(d, slot, offset)
      [] op = "Swap" -> SwapSlot(d, slot, offset)
      [] op = "Inc" -> IncSlot(d, slot, offset)
      [] op = "Dec" -> DecSlot(d, slot, offset)

\* What a Segment method leaves behind: the error returned, the driver's
\* bytes, the arguments' variables, and the driver calls made, in order.
SegRes(err, d, out, calls) ==
    [err |-> err, d |-> d, out |-> out, calls |-> calls]

\* A loop that goes on to the next argument after a failure.
RECURSIVE SegLoopOn(_, _, _, _, _, _)
SegLoopOn(op, d, v, offset, i, calls) ==
    IF i > Len(v)
    THEN SegRes(Nil, d, v, calls)
    ELSE LET r == SlotStep(op, d, v[i], offset)
             rest == SegLoopOn(op, r.d, [v EXCEPT ![i] = r.slot],
                               offset + SizeOf(v[i].type), i + 1,
                               calls \o r.calls)
         IN  IF r.err # Nil
             THEN [rest EXCEPT !.err = r.err]
             ELSE rest

\* A loop that passes over an argument of a type it does not know.
RECURSIVE SegLoopSkip(_, _, _, _, _, _)
SegLoopSkip(op, d, v, offset, i, calls) ==
    IF i > Len(v)
    THEN SegRes(Nil, d, v, calls)
    ELSE IF v[i].type \notin UintTypes
    THEN SegLoopSkip(op, d, v, offset, i + 1, calls)
    ELSE LET r == SlotStep(op, d, v[i], offset) IN
         IF r.err # Nil
         THEN SegRes(r.err, r.d, [v EXCEPT ![i] = r.slot], calls \o r.calls)
         ELSE SegLoopSkip(op, r.d, [v EXCEPT ![i] = r.slot],
                          offset + SizeOf(v[i].type), i + 1, calls \o r.calls)

\* `for _, val := range v`: the i-th argument at the offset the earlier ones
\* left; the first error ends the call.
RECURSIVE SegLoop(_, _, _, _, _, _)
SegLoop(op, d, v, offset, i, calls) ==
    IF i > Len(v)
    THEN SegRes(Nil, d, v, calls)
    ELSE LET r == SlotStep(op, d, v[i], offset) IN
         IF r.err # Nil
         THEN SegRes(r.err, r.d, [v EXCEPT ![i] = r.slot], calls \o r.calls)
         ELSE SegLoop(op, r.d, [v EXCEPT ![i] = r.slot],
                      offset + SizeOf(v[i].type), i + 1, calls \o r.calls)

\* (*Segment).Get(offset, v...)
SegGet(d, offset, v) == SegLoop("Get", d, v, offset, 1, <<>>)

\* (*Segment).Set(offset, v...)
SegSet(d, offset, v) == SegLoop("Set", d, v, offset, 1, <<>>)

\* (*Segment).Swap(offset, v...)
SegSwap(d, offset, v) == SegLoop("Swap", d, v, offset, 1, <<>>)

\* (*Segment).Inc(offset, d...)
SegInc(d, offset, v) == SegLoop("Inc", d, v, offset, 1, <<>>)

\* (*Segment).Dec(offset, d...)
SegDec(d, offset, v) == SegLoop("Dec", d, v, offset, 1, <<>>)

\* A Segment call as the caller sees it: the offset and arguments passed, the
\* error returned, the arguments' variables afterwards, the driver calls made,
\* the driver's bytes before the call, and the call's number.
SegCall(op, offset, args, err, out, calls, before, seq) ==
    [op |-> op, offset |-> offset, args |-> args, err |-> err, out |-> out,
     calls |-> calls, before |-> before, seq |-> seq]

\* ------------------------------------------------------------------ segment over memory
\* Package segment over a byte slice (the pointer-based Segment): Pointer and
\* ScanUint. An int64 wraps around as in Go; a uintptr or uint64 is kept as
\* the int64 with the same bits, so MaxUintptr is -1 and the values above
\* math.MaxInt64 are the negative ones.

SegErrBadValue == "segment: bad value"

SegErrOutOfBounds == "segment: out of bounds"

\* Fault, the value Pointer panics with.
SegFault == "segmentation fault"

\* math.MinInt64, scaled as MaxInt64 is.
MinInt64 == (-MaxInt64) - 1

\* x + y in int64 (and in uintptr: the bits are the same).
Add64(x, y) ==
    IF y >= 0 /\ x > MaxInt64 - y
    THEN MinInt64 + ((x - MaxInt64) + (y - 1))
    ELSE IF y < 0 /\ x < MinInt64 - y
    THEN MaxInt64 + ((x - MinInt64) + (y + 1))
    ELSE x + y

\* x - y in int64, for y above math.MinInt64.
Sub64(x, y) == Add64(x, -y)

\* x > y for two uintptr or uint64.
UGreater(x, y) == IF (x < 0) = (y < 0) THEN x > y ELSE x < 0

\* MaxUintptr = ^uintptr(0)
MaxUintptr == -1

\* New(offset, data): the Segment, data being n bytes at address addr.
SegNew(offset, addr, n) ==
    [offset |-> offset, data |-> [Data |-> addr, Len |-> n]]

\* What Pointer leaves behind: the value it panicked with (Nil when it
\* returned) and the address returned.
PtrRes(panic, ptr) == [panic |-> panic, ptr |-> ptr]

\* (*Segment).Pointer(offset, length)
SegPointer(seg, offset, length) ==
    IF offset < seg.offset \/ UGreater(length, MaxInt64)
    THEN PtrRes(SegFault, 0)
    ELSE LET rel == Sub64(offset, seg.offset) IN
         IF rel > MaxInt64 - length \/ rel + length > seg.data.Len
         THEN PtrRes(SegFault, 0)
         ELSE IF UGreater(rel, Sub64(MaxUintptr, seg.data.Data))
         THEN PtrRes(SegFault, 0)
         ELSE PtrRes(Nil, Add64(seg.data.Data, rel))

\* binary.LittleEndian.Uint16/32/64(buf), and buf[0] for one byte.
LittleEndianUint(buf) ==
    LET F[i \in 0..Len(buf)] ==
            IF i = 0 THEN 0 ELSE F[i - 1] * ByteBase + buf[Len(buf) + 1 - i]
    IN  F[Len(buf)]

\* A ScanUint that decodes the most significant byte first, as Get does.
ScanSlotBigEndian(bytes, slot, offset) ==
    IF slot.type \notin UintTypes
    THEN SlotRes(SegErrBadValue, bytes, slot, <<>>)
    ELSE LET w == SizeOf(slot.type) IN
         IF offset < 0 \/ offset > MaxInt64 - w \/ offset + w > Len(bytes)
         THEN SlotRes(SegErrOutOfBounds, bytes, slot, <<>>)
         ELSE SlotRes(Nil, bytes,
                      [slot EXCEPT !.value =
                          BigEndianUint(Slice(bytes, offset, offset + w))],
                      <<>>)

\* One case of ScanUint: check that the slot lies in the data, decode it into
\* the variable.
ScanSlot(bytes, slot, offset) ==
    IF slot.type \notin UintTypes
    THEN SlotRes(SegErrBadValue, bytes, slot, <<>>)
    ELSE LET w == SizeOf(slot.type) IN
         IF offset < 0 \/ offset > MaxInt64 - w \/ offset + w > Len(bytes)
         THEN SlotRes(SegErrOutOfBounds, bytes, slot, <<>>)
         ELSE SlotRes(Nil, bytes,
                      [slot EXCEPT !.value =
                          LittleEndianUint(Slice(bytes, offset, offset + w))],
                      <<>>)

\* `for _, val := range v` of ScanUint.
RECURSIVE ScanLoop(_, _, _, _)
ScanLoop(bytes, v, offset, i) ==
    IF i > Len(v)
    THEN SegRes(Nil, bytes, v, <<>>)
    ELSE LET r == ScanSlot(bytes, v[i], offset) IN
         IF r.err # Nil
         THEN SegRes(r.err, bytes, v, <<>>)
         ELSE ScanLoop(bytes, [v EXCEPT ![i] = r.slot],
                       offset + SizeOf(v[i].type), i + 1)

\* (*Segment).ScanUint(offset, v...), bytes being those of seg.data.
SegScanUint(seg, bytes, offset, v) ==
    IF offset < seg.offset
    THEN SegRes(SegErrOutOfBounds, bytes, v, <<>>)
    ELSE ScanLoop(bytes, v, Sub64(offset, seg.offset), 1)

\* A call on the pointer-based Segment as the caller sees it: the offset,
\* length and arguments passed, the error returned or the value panicked
\* with, the arguments' variables afterwards and the address returned.
PtrCall(op, offset, length, args, err, out, ptr) ==
    [op |-> op, offset |-> offset, length |-> length, args |-> args,
     err |-> err, out |-> out, ptr |-> ptr]

\* No segment is in use.
SegIdle ==
    /\ store = <<>>
    /\ fix = [offset |-> 0, in |-> <<>>]
    /\ dest = <<>>
    /\ slast = SegCall("New", 0, <<>>, Nil, <<>>, <<>>, <<>>, 0)
    /\ pseg = SegNew(0, 0, 0)

\* ------------------------------------------------------------------ inputs

ByteSeqs(n) == UNION {[1..k -> Bytes] : k \in 0..n}

\* Offsets below, inside and above the store, and one near the int64 limit.
Offsets == (-1..(DataLen + 1)) \cup {MaxInt64}

Lengths == 0..(DataLen + 1)

\* The window [lo, hi) after a write of buf at absolute offset o.
Overlay(w, lo, hi, buf, o) ==
    [i \in 1..(hi - lo) |->
        LET abs == lo + i - 1 IN
        IF abs >= o /\ abs - o < Len(buf) THEN buf[abs - o + 1] ELSE w[i]]

\* ------------------------------------------------------------------ actions

\* No transaction has been begun.
\* The path does not exist and OpenFile has not been called.
NoFs ==
    [exists |-> FALSE, calls |-> 0, inits |-> 0, ok |-> TRUE,
     armed |-> FALSE, wrote |-> <<>>, span |-> 0]

\* The transactions on the one store.
TxIds == {1, 2}

\* A transaction not yet begun.
Unbegun ==
    [tx |-> NoTx, phase |-> "none", base |-> <<>>, flushed |-> <<>>,
     clobbered |-> FALSE, nth |-> 0]

\* The caller has not asked for the mapping's Segment.
NoSegment == [some |-> FALSE, early |-> FALSE]

\* Nothing pinned, no handle acquired.
NoHost == [pinned |-> FALSE, twice |-> FALSE, handles |-> {}, opens |-> 0]

\* The host after the system calls sys, of which those in failed returned an
\* error: syscall.Mlock pins the pages, syscall.Munlock unpins them.
RECURSIVE HostCalls(_, _, _)
HostCalls(h, sys, failed) ==
    IF sys = <<>>
    THEN h
    ELSE LET name == Head(sys)
             next == IF name \in failed
                     THEN h
                     ELSE IF name = "mlock"
                     THEN [h EXCEPT !.pinned = TRUE, !.twice = h.twice \/ h.pinned]
                     ELSE IF name = "munlock"
                     THEN [h EXCEPT !.pinned = FALSE, !.twice = h.twice \/ ~h.pinned]
                     ELSE h
         IN  HostCalls(next, Tail(sys), failed)

ExtIdle ==
    /\ fs = NoFs
    /\ mseg = NoSegment
    /\ host = NoHost
    /\ txs = [i \in TxIds |-> Unbegun]

TxIdle ==
    /\ tx = NoTx
    /\ phase = "none"
    /\ begun = <<>>
    /\ shadow = <<>>
    /\ dirty = FALSE
    /\ last = Call("New", 0, 0, 0, Nil, <<>>)

\* No mapping has been opened.
MapIdle ==
    /\ m = ZeroMapping
    /\ mlast = MapCall("New", 0, 0, 0, Nil, <<>>, <<>>)
    /\ file = <<>>
    /\ fdOpen = FALSE
    /\ kern = NoKern
    /\ mphase = "none"
    /\ opened = [mode |-> ModeReadOnly, flags |-> 0]
    /\ unmaps = 0
    /\ written = NoWrite

\* The transaction layer over a plain byte slice of any content.
Init ==
    /\ data \in [1..DataLen -> Bytes]
    /\ TxIdle
    /\ ExtIdle
    /\ MapIdle
    /\ SegIdle

\* The caller writes one byte straight into the store, bypassing the transaction.
DirectWrite ==
    \E i \in 1..DataLen, b \in Bytes :
        /\ data[i] # b
        /\ data' = [data EXCEPT ![i] = b]
        /\ dirty' = (phase # "none")
        /\ begun' = <<>>
        /\ last' = Call("Direct", 0, 0, 0, Nil, <<>>)
        /\ UNCHANGED <<tx, phase, shadow, mapVars, segVars, extVars>>

DoBegin ==
    \E offset \in Offsets, length \in Lengths :
        \E r \in {Begin(data, offset, length)} :
        /\ phase = "none"
        /\ data' = r.original
        /\ last' = Call("Begin", offset, length, 0, r.err, <<>>)
        /\ IF r.err = Nil
           THEN /\ tx' = r.tx
                /\ phase' = "open"
                /\ begun' = data
                /\ shadow' = [i \in 1..length |-> data[offset + i]]
           ELSE UNCHANGED <<tx, phase, begun, shadow>>
        /\ UNCHANGED <<dirty, mapVars, segVars, extVars>>

\* The caller's buffer is make([]byte, len), as in the tests.
DoReadAt ==
    \E len \in 0..MaxBuf, offset \in Offsets :
        \E r \in {TxReadAt(tx, data, Make(len).bytes, offset)} :
        /\ phase # "none"
        /\ data' = r.original
        /\ tx' = [tx EXCEPT !.snapshot = r.snapshot]
        /\ last' = Call("ReadAt", offset, len, r.n, r.err, r.buf)
        /\ UNCHANGED <<phase, begun, shadow, dirty, mapVars, segVars, extVars>>

DoWriteAt ==
    \E buf \in ByteSeqs(MaxBuf), offset \in Offsets :
        \E r \in {TxWriteAt(tx, data, buf, offset)} :
        /\ phase # "none"
        /\ data' = r.original
        /\ tx' = [tx EXCEPT !.snapshot = r.snapshot]
        /\ shadow' = IF r.err = Nil
                     THEN Overlay(shadow, tx.lowOffset, tx.highOffset, buf, offset)
                     ELSE shadow
        /\ last' = Call("WriteAt", offset, Len(buf), r.n, r.err, <<>>)
        /\ UNCHANGED <<phase, begun, dirty, mapVars, segVars, extVars>>

DoCommit ==
    \E r \in {TxCommit(tx, data)} :
    /\ phase # "none"
    /\ data' = r.original
    /\ tx' = [tx EXCEPT !.snapshot = r.snapshot]
    /\ phase' = IF r.err = Nil THEN "committed" ELSE phase
    /\ last' = Call("Commit", 0, 0, 0, r.err, <<>>)
    /\ UNCHANGED <<begun, shadow, dirty, mapVars, segVars, extVars>>

DoRollback ==
    \E r \in {TxRollback(tx, data)} :
    /\ phase # "none"
    /\ data' = r.original
    /\ tx' = [tx EXCEPT !.snapshot = r.snapshot]
    /\ phase' = IF r.err = Nil THEN "rolledback" ELSE phase
    /\ last' = Call("Rollback", 0, 0, 0, r.err, <<>>)
    /\ UNCHANGED <<begun, shadow, dirty, mapVars, segVars, extVars>>

Next ==
    \/ DirectWrite
    \/ DoBegin
    \/ DoReadAt
    \/ DoWriteAt
    \/ DoCommit
    \/ DoRollback

Spec == Init /\ [][Next]_vars

\* ------------------------------------------------------------------ mapping actions

MapOffsets == (-1..(MemLen + 1)) \cup {MaxInt64}

\* The state after a successful Open(fd, 0, MemLen, mode, 0) of a file of MemLen
\* bytes of any content, mode ModeReadOnly or ModeReadWrite.
MapInit ==
    /\ m \in [writable : BOOLEAN, executable : {FALSE}, locked : {FALSE},
              memory : [nil : {FALSE}, bytes : [1..MemLen -> Bytes]]]
    /\ mlast = MapCall("Open", 0, MemLen, 0, Nil, <<>>, <<"mmap">>)
    /\ file = m.memory.bytes
    /\ fdOpen = TRUE
    /\ kern = [mapped |-> TRUE, flags |-> MAP_SHARED, offset |-> 0,
               length |-> MemLen, inner |-> 0]
    /\ mphase = "open"
    /\ opened = [mode |-> IF m.writable THEN ModeReadWrite ELSE ModeReadOnly,
                 flags |-> 0]
    /\ unmaps = 0
    /\ written = NoWrite
    /\ data = Make(DataLen).bytes
    /\ TxIdle
    /\ ExtIdle
    /\ SegIdle

DoMapReadAt ==
    \E len \in 0..MaxBuf, offset \in MapOffsets :
        \E r \in {MapReadAt(m, Make(len).bytes, offset)} :
        /\ mphase # "none"
        /\ m' = r.m
        /\ mlast' = MapCall("ReadAt", offset, len, r.n, r.err, r.buf, r.sys)
        /\ written' = NoWrite
        /\ UNCHANGED <<file, fdOpen, kern, mphase, opened, unmaps, txVars, segVars, extVars>>

DoMapWriteAt ==
    \E buf \in ByteSeqs(MaxBuf), offset \in MapOffsets :
        \E r \in {MapWriteAt(m, buf, offset)} :
        /\ mphase # "none"
        /\ m' = r.m
        /\ mlast' = MapCall("WriteAt", offset, Len(buf), r.n, r.err, <<>>, r.sys)
        /\ written' = IF r.err = Nil
                      THEN [offset |-> offset, buf |-> buf, some |-> TRUE]
                      ELSE NoWrite
        /\ UNCHANGED <<file, fdOpen, kern, mphase, opened, unmaps, txVars, segVars, extVars>>

DoMapLock ==
    \E ok \in BOOLEAN :
        \E r \in {MapLock(m, ok)} :
        /\ mphase # "none"
        /\ m' = r.m
        /\ mlast' = MapCall("Lock", 0, 0, 0, r.err, <<>>, r.sys)
        /\ written' = NoWrite
        /\ host' = HostCalls(host, r.sys, IF ok THEN {} ELSE {"mlock"})
        /\ UNCHANGED <<file, fdOpen, kern, mphase, opened, unmaps, txVars, segVars,
                       fs, txs, mseg>>

DoMapUnlock ==
    \E ok \in BOOLEAN :
        \E r \in {MapUnlock(m, ok)} :
        /\ mphase # "none"
        /\ m' = r.m
        /\ mlast' = MapCall("Unlock", 0, 0, 0, r.err, <<>>, r.sys)
        /\ written' = NoWrite
        /\ host' = HostCalls(host, r.sys, IF ok THEN {} ELSE {"munlock"})
        /\ UNCHANGED <<file, fdOpen, kern, mphase, opened, unmaps, txVars, segVars,
                       fs, txs, mseg>>

\* A successful msync carries the bytes of a shared mapping through to the file.
DoMapSync ==
    \E ok \in BOOLEAN :
        \E r \in {MapSync(m, ok)} :
        /\ mphase # "none"
        /\ m' = r.m
        /\ mlast' = MapCall("Sync", 0, 0, 0, r.err, <<>>, r.sys)
        /\ file' = IF r.sys = <<"msync">> /\ ok
                   THEN Carry(file, kern, m.memory.bytes)
                   ELSE file
        /\ written' = NoWrite
        /\ UNCHANGED <<fdOpen, kern, mphase, opened, unmaps, txVars, segVars, extVars>>

\* A successful msync or munmap carries the bytes of a shared mapping through
\* to the file; a successful munmap removes the kernel's mapping.
DoMapClose ==
    \E syncOk \in BOOLEAN, unlockOk \in BOOLEAN, unmapOk \in BOOLEAN :
        \E r \in {MapClose(m, syncOk, unlockOk, unmapOk)} :
        LET issued(name) == \E i \in 1..Len(r.sys) : r.sys[i] = name IN
        /\ mphase # "none"
        /\ m' = r.m
        /\ mlast' = MapCall("Close", 0, 0, 0, r.err, <<>>, r.sys)
        /\ file' = IF (issued("msync") /\ syncOk) \/ (issued("munmap") /\ unmapOk)
                   THEN Carry(file, kern, m.memory.bytes)
                   ELSE file
        /\ kern' = IF issued("munmap") /\ unmapOk
                   THEN [kern EXCEPT !.mapped = FALSE]
                   ELSE kern
        /\ unmaps' = IF issued("munmap") THEN Min(unmaps + 1, 2) ELSE unmaps
        /\ mphase' = "closed"
        /\ written' = NoWrite
        /\ host' = HostCalls(host, r.sys, IF unlockOk THEN {} ELSE {"munlock"})
        /\ UNCHANGED <<fdOpen, opened, txVars, segVars, fs, txs, mseg>>

\* Mapping.Begin of the first byte, or of no byte (which transaction.Begin
\* refuses): the transaction it returns is the one the model follows.
DoMapBegin ==
    \E offset \in {0}, length \in {0, 1} :
        \E r \in {MapBegin(m, offset, length)} :
        /\ mphase # "none"
        /\ phase = "none"
        /\ mlast' = MapCall("Begin", offset, length, 0, r.err, <<>>, <<>>)
        /\ written' = NoWrite
        /\ IF r.err = Nil
           THEN /\ tx' = r.tx
                /\ phase' = "open"
           ELSE UNCHANGED <<tx, phase>>
        /\ UNCHANGED <<m, file, fdOpen, kern, mphase, opened, unmaps,
                       data, begun, shadow, dirty, last, segVars, extVars>>

\* The caller closes the file descriptor it passed to Open.
DoFdClose ==
    /\ fdOpen
    /\ fdOpen' = FALSE
    /\ mlast' = MapCall("FdClose", 0, 0, 0, Nil, <<>>, <<"close">>)
    /\ UNCHANGED <<m, file, kern, mphase, opened, unmaps, written, txVars, segVars, extVars>>

MapNext ==
    \/ DoMapReadAt
    \/ DoMapWriteAt
    \/ DoMapLock
    \/ DoMapUnlock
    \/ DoMapSync
    \/ DoMapClose
    \/ DoMapBegin
    \/ DoFdClose

SpecMap == MapInit /\ [][MapNext]_vars

\* ------------------------------------------------------------------ Open

\* Offsets below, inside and above the file.
OpenOffsets == -1..(FileLen + 1)

\* Lengths up to the file's, and one above MaxInt.
OpenLengths == (0..FileLen) \cup {MaxInt + 1}

OpenModes == (ModeReadOnly - 1)..(ModeWriteCopy + 1)

OpenFlags == {0, FlagExecutable}

\* A file of FileLen bytes, each different from the others and from the bytes
\* written through the mapping.
InitialFile == [i \in 1..FileLen |-> i + 1]

\* The file and no mapping yet.
OpenInit ==
    /\ file = InitialFile
    /\ fdOpen = TRUE
    /\ m = ZeroMapping
    /\ mlast = MapCall("New", 0, 0, 0, Nil, <<>>, <<>>)
    /\ kern = NoKern
    /\ mphase = "none"
    /\ opened = [mode |-> ModeReadOnly, flags |-> 0]
    /\ unmaps = 0
    /\ written = NoWrite
    /\ data = Make(DataLen).bytes
    /\ TxIdle
    /\ ExtIdle
    /\ SegIdle

DoOpen ==
    \E offset \in OpenOffsets, length \in OpenLengths,
       mode \in OpenModes, flags \in OpenFlags, ok \in BOOLEAN :
        \E r \in {MapOpen(file, fdOpen, kern, offset, length, mode, flags, ok)} :
        /\ mphase = "none"
        /\ m' = r.m
        /\ kern' = r.kern
        /\ mlast' = MapCall("Open", offset, length, 0, r.err, <<>>, r.sys)
        /\ opened' = [mode |-> mode, flags |-> flags]
        /\ mphase' = IF r.err = Nil THEN "open" ELSE "none"
        /\ UNCHANGED <<file, fdOpen, unmaps, written, txVars, segVars, extVars>>

\* The kernel writes the dirty pages of a shared mapping to the file whenever
\* it likes.
Writeback ==
    /\ kern.mapped
    /\ ~m.memory.nil
    /\ Carry(file, kern, m.memory.bytes) # file
    /\ file' = Carry(file, kern, m.memory.bytes)
    /\ mlast' = MapCall("Writeback", 0, 0, 0, Nil, <<>>, <<>>)
    /\ UNCHANGED <<m, fdOpen, kern, mphase, opened, unmaps, written, txVars, segVars, extVars>>

OpenNext ==
    \/ DoOpen
    \/ DoMapReadAt
    \/ DoMapWriteAt
    \/ DoMapSync
    \/ DoMapClose
    \/ Writeback

SpecOpen == OpenInit /\ [][OpenNext]_vars

\* ------------------------------------------------------------------ segment over a driver

\* Offsets below the driver's bytes, at their start and at their end.
SegOffsets == (-1..1) \cup ((StoreLen - 1)..StoreLen)

\* Lists of up to MaxArgs argument types, and one of three that fills seven
\* bytes.
SegTypes ==
    UNION {[1..n -> ArgTypes] : n \in 0..MaxArgs}
        \cup {<<"uint8", "uint16", "uint32">>}

\* The values a caller passes: each the largest of its type, or each its
\* position in the list.
ValuesOf(types, big) ==
    [i \in 1..Len(types) |->
        [type |-> types[i],
         value |-> IF big THEN Modulus(SizeOf(types[i])) - 1 ELSE i]]

SegArgs == {ValuesOf(types, big) : types \in SegTypes, big \in BOOLEAN}

\* The variables Get and Swap point to: same types as the values, holding
\* MaxUint8, MaxUint8 - 1, ... down the list.
Destinations(v) ==
    [i \in 1..Len(v) |-> [type |-> v[i].type, value |-> MaxUint8 + 1 - i]]

\* The driver's bytes after earlier calls: every byte the largest, or a
\* pattern in which neighbours differ.
SegStores ==
    {[i \in 1..StoreLen |-> ByteBase - 1],
     [i \in 1..StoreLen |-> i % ByteBase]}

\* New(driver) over a driver of StoreLen bytes, and the caller's variables:
\* the offset it works at, the values it passes, the variables it points to.
SegInit ==
    /\ store \in SegStores
    /\ fix \in [offset : SegOffsets, in : SegArgs]
    /\ dest = Destinations(fix.in)
    /\ slast = SegCall("New", 0, <<>>, Nil, <<>>, <<>>, store, 0)
    /\ pseg = SegNew(0, 0, 0)
    /\ data = Make(DataLen).bytes
    /\ TxIdle
    /\ ExtIdle
    /\ MapIdle

DoGet ==
    /\ slast.seq < MaxCalls
    /\ \E r \in {SegGet(store, fix.offset, dest)} :
        /\ store' = r.d
        /\ dest' = r.out
        /\ slast' = SegCall("Get", fix.offset, dest, r.err, r.out, r.calls,
                            store, slast.seq + 1)
        /\ UNCHANGED <<fix, pseg, txVars, mapVars, extVars>>

DoSet ==
    /\ slast.seq < MaxCalls
    /\ \E r \in {SegSet(store, fix.offset, fix.in)} :
        /\ store' = r.d
        /\ slast' = SegCall("Set", fix.offset, fix.in, r.err, r.out, r.calls,
                            store, slast.seq + 1)
        /\ UNCHANGED <<fix, dest, pseg, txVars, mapVars, extVars>>

DoSwap ==
    /\ slast.seq < MaxCalls
    /\ \E r \in {SegSwap(store, fix.offset, dest)} :
        /\ store' = r.d
        /\ dest' = r.out
        /\ slast' = SegCall("Swap", fix.offset, dest, r.err, r.out, r.calls,
                            store, slast.seq + 1)
        /\ UNCHANGED <<fix, pseg, txVars, mapVars, extVars>>

DoInc ==
    /\ slast.seq < MaxCalls
    /\ \E r \in {SegInc(store, fix.offset, fix.in)} :
        /\ store' = r.d
        /\ slast' = SegCall("Inc", fix.offset, fix.in, r.err, r.out, r.calls,
                            store, slast.seq + 1)
        /\ UNCHANGED <<fix, dest, pseg, txVars, mapVars, extVars>>

DoDec ==
    /\ slast.seq < MaxCalls
    /\ \E r \in {SegDec(store, fix.offset, fix.in)} :
        /\ store' = r.d
        /\ slast' = SegCall("Dec", fix.offset, fix.in, r.err, r.out, r.calls,
                            store, slast.seq + 1)
        /\ UNCHANGED <<fix, dest, pseg, txVars, mapVars, extVars>>

SegNext ==
    \/ DoGet
    \/ DoSet
    \/ DoSwap
    \/ DoInc
    \/ DoDec

SpecSeg == SegInit /\ [][SegNext]_vars

\* ------------------------------------------------------------------ segment over memory

\* Base offsets of a segment: below, at and above zero.
PtrBases == -1..1

\* Addresses of the segment's data.
PtrAddrs == {16, 4096}

\* Offsets below, inside and above the segment, and the largest int64.
PtrOffsets == (-2..(StoreLen + 2)) \cup {MaxInt64}

\* Lengths up to one above the data's, the largest int64, and the largest
\* uintptr.
PtrLengths == (0..(StoreLen + 1)) \cup {MaxInt64, MaxUintptr}

\* New(offset, data) over StoreLen bytes.
PtrInit ==
    /\ store \in SegStores
    /\ pseg \in {SegNew(b, a, StoreLen) : b \in PtrBases, a \in PtrAddrs}
    /\ fix = [offset |-> 0, in |-> <<>>]
    /\ dest = <<>>
    /\ slast = PtrCall("New", pseg.offset, StoreLen, <<>>, Nil, <<>>, pseg.data.Data)
    /\ data = Make(DataLen).bytes
    /\ TxIdle
    /\ ExtIdle
    /\ MapIdle

\* Pointer and ScanUint change neither the segment nor its data: one call on
\* each segment shows all there is.
DoPointer ==
    /\ slast.op = "New"
    /\ \E offset \in PtrOffsets, length \in PtrLengths :
        \E r \in {SegPointer(pseg, offset, length)} :
        /\ slast' = PtrCall("Pointer", offset, length, <<>>, r.panic, <<>>, r.ptr)
        /\ UNCHANGED <<store, pseg, fix, dest, txVars, mapVars, extVars>>

\* The caller declares the variables and passes pointers to them.
DoScanUint ==
    /\ slast.op = "New"
    /\ \E offset \in PtrOffsets, types \in SegTypes :
        \E r \in {SegScanUint(pseg, store, offset,
                                Destinations(ValuesOf(types, FALSE)))} :
        /\ slast' = PtrCall("ScanUint", offset, 0,
                            Destinations(ValuesOf(types, FALSE)), r.err, r.out, 0)
        /\ UNCHANGED <<store, pseg, fix, dest, txVars, mapVars, extVars>>

PtrNext ==
    \/ DoPointer
    \/ DoScanUint

SpecPtr == PtrInit /\ [][PtrNext]_vars

\* ------------------------------------------------------------------ OpenFile
\* OpenFile(name, perm, size, flags, init) of the file-bootstrap helper, over
\* one path. The initializer is the caller's: as in TestFileOpening it writes
\* one buffer at offset 0 and returns what WriteAt returned.

\* No initializer (init == nil).
NoInit == [some |-> FALSE, buf |-> <<>>]

\* An initializer for every file found.
StatAlways(exists) == TRUE

\* created: os.Stat(name) failed with a not-exist error.
StatNotExist(exists) == ~exists

\* f.Truncate(size): the file cut or extended with zero bytes to `size`.
Truncate(f, size) == [i \in 1..size |-> IF i <= Len(f) THEN f[i] ELSE 0]

\* What OpenFile leaves behind: the error, the mapping, the kernel's side, the
\* file's bytes and whether the path exists, how often the initializer was
\* invoked and whether it returned nil, the system calls issued.
OpenFileRes(err, mp, k, f, exists, inits, initOk, sys) ==
    [err |-> err, m |-> mp, kern |-> k, file |-> f, exists |-> exists,
     inits |-> inits, initOk |-> initOk, sys |-> sys]

\* OpenFile on the path whose file is f (if it exists); openOk, truncOk and
\* mmapOk: os.OpenFile, Truncate and mmap succeed; syncOk and unmapOk: the
\* system calls of the Close after a failed initializer succeed.
OpenFile(f, exists, k, size, flags, init, openOk, truncOk, mmapOk, syncOk, unmapOk) ==
    LET created == StatNotExist(exists)
        f1 == IF exists THEN f ELSE <<>>
        f2 == Truncate(f1, size)
        o == MapOpen(f2, TRUE, k, 0, size, ModeReadWrite, flags, mmapOk)
        w == MapWriteAt(o.m, init.buf, 0)
        c == MapClose(w.m, syncOk, TRUE, unmapOk)
    IN  IF ~openOk
        THEN OpenFileRes(SyscallError("open"), ZeroMapping, k, f, exists, 0, FALSE,
                         <<"stat", "open">>)
        ELSE IF ~truncOk
        THEN OpenFileRes(SyscallError("truncate"), ZeroMapping, k,
                         IF created THEN <<>> ELSE f1, ~created, 0, FALSE,
                         <<"stat", "open", "truncate">>)
        ELSE IF o.err # Nil
        THEN OpenFileRes(o.err, ZeroMapping, o.kern,
                         IF created THEN <<>> ELSE f2, ~created, 0, FALSE,
                         <<"stat", "open", "truncate">> \o o.sys)
        ELSE IF created /\ init.some
        THEN IF w.err # Nil
             THEN OpenFileRes(w.err, ZeroMapping,
                              [o.kern EXCEPT !.mapped = ~unmapOk], <<>>, FALSE,
                              1, FALSE,
                              <<"stat", "open", "truncate">> \o o.sys \o c.sys)
             ELSE OpenFileRes(Nil, w.m, o.kern, f2, TRUE, 1, TRUE,
                              <<"stat", "open", "truncate">> \o o.sys)
        ELSE OpenFileRes(Nil, o.m, o.kern, f2, TRUE, 0, FALSE,
                         <<"stat", "open", "truncate">> \o o.sys)

\* Sizes from none to one byte above FileLen.
FileSizes == 0..(FileLen + 1)

\* No initializer, or one that writes up to MaxBuf bytes, none of them the
\* zero byte Truncate fills the file with.
Initializers ==
    {NoInit} \cup {[some |-> TRUE, buf |-> [i \in 1..n |-> 1]] : n \in 0..MaxBuf}

\* The first system call of an OpenFile call that fails, if any: the calls
\* after a failed one are not made ("munmap" is that of the Close after a
\* failed initializer, whose msync changes nothing once the file is removed).
FirstFailures == {"none", "open", "truncate", "mmap", "munmap"}

\* The path does not exist and nothing is mapped.
FileInit ==
    /\ file = <<>>
    /\ fdOpen = FALSE
    /\ m = ZeroMapping
    /\ mlast = MapCall("New", 0, 0, 0, Nil, <<>>, <<>>)
    /\ kern = NoKern
    /\ mphase = "none"
    /\ opened = [mode |-> ModeReadOnly, flags |-> 0]
    /\ unmaps = 0
    /\ written = NoWrite
    /\ data = Make(DataLen).bytes
    /\ TxIdle
    /\ ExtIdle
    /\ SegIdle

\* OpenFile while no mapping of the path is open. History: fs.armed is whether
\* the call that created the file passed an initializer, fs.wrote the bytes
\* that initializer wrote, fs.span the smallest size the file was given since.
DoOpenFile ==
    /\ mphase # "open"
    /\ fs.calls < MaxCalls
    /\ \E size \in FileSizes, flags \in OpenFlags, init \in Initializers,
          fail \in FirstFailures :
        \E r \in {OpenFile(file, fs.exists, kern, size, flags, init,
                           fail # "open", fail # "truncate", fail # "mmap",
                           TRUE, fail # "munmap")} :
        /\ m' = r.m
        /\ kern' = r.kern
        /\ file' = r.file
        /\ fdOpen' = FALSE
        /\ mlast' = MapCall("OpenFile", 0, size, 0, r.err, <<>>, r.sys)
        /\ opened' = [mode |-> ModeReadWrite, flags |-> flags]
        /\ mphase' = IF r.err = Nil THEN "open" ELSE mphase
        /\ fs' = [exists |-> r.exists,
                  calls |-> fs.calls + 1,
                  inits |-> fs.inits + r.inits,
                  ok |-> fs.ok /\ r.err = Nil,
                  armed |-> IF fs.exists THEN fs.armed ELSE init.some,
                  wrote |-> IF r.initOk THEN init.buf
                            ELSE IF fs.exists /\ r.exists THEN fs.wrote ELSE <<>>,
                  span |-> IF fail \in {"open", "truncate"} \/ ~r.exists
                           THEN fs.span
                           ELSE IF fs.exists THEN Min(fs.span, size) ELSE size]
        /\ UNCHANGED <<unmaps, written, txVars, segVars, txs, mseg, host>>

\* Close of the mapping OpenFile returned.
DoFileClose ==
    /\ mphase = "open"
    /\ \E syncOk \in BOOLEAN, unmapOk \in BOOLEAN :
        \E r \in {MapClose(m, syncOk, TRUE, unmapOk)} :
        /\ m' = r.m
        /\ mlast' = MapCall("Close", 0, 0, 0, r.err, <<>>, r.sys)
        /\ file' = IF syncOk \/ unmapOk
                   THEN Carry(file, kern, m.memory.bytes)
                   ELSE file
        /\ kern' = [kern EXCEPT !.mapped = ~unmapOk]
        /\ unmaps' = Min(unmaps + 1, 2)
        /\ mphase' = "closed"
        /\ fs' = [fs EXCEPT !.ok = fs.ok /\ r.err = Nil]
        /\ UNCHANGED <<fdOpen, opened, written, txVars, segVars, txs, mseg, host>>

FileNext ==
    \/ DoOpenFile
    \/ DoMapReadAt
    \/ DoFileClose
    \/ Writeback

SpecFile == FileInit /\ [][FileNext]_vars

\* ------------------------------------------------------------------ two transactions
\* Two transactions begun on the same store, each with its own snapshot, and
\* direct writes to the store. Transaction i writes bytes of value i + 1, which
\* the store does not hold at first and a direct write does not write, from
\* the start of its window on. The transactions are begun in the order of
\* their numbers, and each is followed up to its Commit and until its snapshot
\* differs from the bytes it was begun with.

\* The number of transactions that have committed.
Commits == Cardinality({i \in TxIds : txs[i].phase = "committed"})

\* The caller writes one byte straight into the store while a transaction is
\* open.
DoTwoDirect ==
    \E i \in 1..DataLen, b \in Bytes :
        /\ \E t \in TxIds : txs[t].phase = "open"
        /\ data[i] # b
        /\ data' = [data EXCEPT ![i] = b]
        /\ last' = Call("Direct", 0, 0, 0, Nil, <<>>)
        /\ UNCHANGED <<tx, phase, begun, shadow, dirty, mapVars, segVars, extVars>>

DoTwoBegin ==
    \E i \in TxIds, offset \in 0..(DataLen - 1), length \in 1..DataLen :
        /\ txs[i].phase = "none"
        /\ \A j \in TxIds : j < i => txs[j].phase # "none"
        /\ \E r \in {Begin(data, offset, length)} :
            /\ data' = r.original
            /\ last' = Call("Begin", offset, length, 0, r.err, <<>>)
            /\ txs' = IF r.err = Nil
                      THEN [txs EXCEPT ![i] = [tx |-> r.tx, phase |-> "open",
                                               base |-> r.tx.snapshot.bytes,
                                               flushed |-> <<>>,
                                               clobbered |-> FALSE, nth |-> 0]]
                      ELSE txs
            /\ UNCHANGED <<tx, phase, begun, shadow, dirty, mapVars, segVars, fs, mseg, host>>

DoTwoWriteAt ==
    \E i \in TxIds, n \in 1..MaxBuf :
        /\ txs[i].phase = "open"
        /\ txs[i].tx.snapshot.bytes = txs[i].base
        /\ \E r \in {TxWriteAt(txs[i].tx, data, [k \in 1..n |-> i + 1],
                                 txs[i].tx.lowOffset)} :
            /\ data' = r.original
            /\ txs' = [txs EXCEPT ![i].tx.snapshot = r.snapshot]
            /\ last' = Call("WriteAt", txs[i].tx.lowOffset, n, r.n, r.err, <<>>)
            /\ UNCHANGED <<tx, phase, begun, shadow, dirty, mapVars, segVars, fs, mseg, host>>

DoTwoCommit ==
    \E i \in TxIds :
        /\ txs[i].phase = "open"
        /\ \E r \in {TxCommit(txs[i].tx, data)} :
            /\ data' = r.original
            /\ txs' = IF r.err = Nil
                      THEN [txs EXCEPT
                              ![i].tx.snapshot = r.snapshot,
                              ![i].phase = "committed",
                              ![i].flushed = txs[i].tx.snapshot.bytes,
                              ![i].clobbered =
                                  (Slice(data, txs[i].tx.lowOffset,
                                         txs[i].tx.highOffset) # txs[i].base),
                              ![i].nth = Commits + 1]
                      ELSE txs
            /\ last' = Call("Commit", 0, 0, 0, r.err, <<>>)
            /\ UNCHANGED <<tx, phase, begun, shadow, dirty, mapVars, segVars, fs, mseg, host>>

TwoNext ==
    \/ DoTwoDirect
    \/ DoTwoBegin
    \/ DoTwoWriteAt
    \/ DoTwoCommit

SpecTwo == Init /\ [][TwoNext]_vars

\* ------------------------------------------------------------------ the mapping's Segment
\* The driver-based Segment of a mapping: Mapping.Segment() makes it over the
\* mapping itself, whose ReadAt and WriteAt are the driver; the caller gets it
\* before or after Close and makes one call on it.

\* The calls are made at the start of the mapped memory.
MapSegOffsets == {0}

\* (*Segment).<op>(offset, v...)
SegApply(op, d, offset, v) ==
    CASE op = "Get" -> SegGet(d, offset, v)
      [] op = "Set" -> SegSet(d, offset, v)
      [] op = "Swap" -> SegSwap(d, offset, v)
      [] op = "Inc" -> SegInc(d, offset, v)
      [] op = "Dec" -> SegDec(d, offset, v)

\* Mapping.Segment(): the Segment over this mapping, open or closed.
DoSegment ==
    /\ mphase # "none"
    /\ ~mseg.some
    /\ mseg' = [some |-> TRUE, early |-> ~m.memory.nil]
    /\ slast' = SegCall("Segment", 0, <<>>, Nil, <<>>, <<>>, m.memory.bytes, 0)
    /\ UNCHANGED <<store, fix, dest, pseg, txVars, mapVars, fs, txs, host>>

\* One call on the mapping's Segment; Get and Swap are passed pointers to the
\* caller's variables.
DoSegmentCall ==
    /\ mseg.some
    /\ slast.op = "Segment"
    /\ \E op \in {"Get", "Set", "Swap", "Inc", "Dec"}, offset \in MapSegOffsets,
          v \in SegArgs :
        \E args \in {IF op \in {"Get", "Swap"} THEN Destinations(v) ELSE v} :
        \E r \in {SegApply(op, m.memory.bytes, offset, args)} :
        /\ m' = [m EXCEPT !.memory.bytes = r.d]
        /\ slast' = SegCall(op, offset, args, r.err, r.out, r.calls,
                            m.memory.bytes, slast.seq + 1)
        /\ UNCHANGED <<store, fix, dest, pseg, txVars, extVars,
                       mlast, file, fdOpen, kern, mphase, opened, unmaps, written>>

MapSegNext ==
    \/ DoSegment
    \/ DoSegmentCall
    \/ DoMapClose

SpecMapSeg == MapInit /\ [][MapSegNext]_vars


\* ------------------------------------------------------------------ a
\* transaction of the mapping
\* Mapping.Begin hands m.memory to transaction.Begin, so tx.original is the
\* mapped region itself, and stays so when Close has unmapped the region and
\* zeroed the Mapping.

\* (*Tx).Commit() of a transaction Mapping.Begin returned; held: the region is
\* still mapped at its address (the mapping is open, or munmap failed); reused:
\* the address range has been given to something else since munmap. n is the
\* number of bytes the copy stores through tx.original, stray whether they land
\* in memory the mapping has released; a store into an unmapped page ends the
\* process.
MapTxCommit(t, mp, closed, held, reused) ==
    IF t.snapshot.nil
    THEN [err |-> ErrClosed, n |-> 0, stray |-> FALSE, m |-> mp,
          snapshot |-> t.snapshot]
    ELSE IF ~closed
    THEN LET r == TxCommit(t, mp.memory.bytes) IN
         [err |-> r.err, n |-> t.highOffset - t.lowOffset, stray |-> FALSE,
          m |-> [mp EXCEPT !.memory.bytes = r.original], snapshot |-> r.snapshot]
    ELSE IF held \/ reused
    THEN [err |-> Nil, n |-> t.highOffset - t.lowOffset, stray |-> TRUE,
          m |-> mp, snapshot |-> NilSlice]
    ELSE [err |-> SegFault, n |-> 0, stray |-> TRUE, m |-> mp,
          snapshot |-> t.snapshot]

\* WriteAt of one byte at the start of the transaction's window.
DoMapTxWriteAt ==
    \E b \in Bytes :
        \E r \in {TxWriteAt(tx, m.memory.bytes, <<b>>, 0)} :
        /\ mphase # "none"
        /\ phase # "none"
        /\ tx' = [tx EXCEPT !.snapshot = r.snapshot]
        /\ last' = Call("WriteAt", 0, 1, r.n, r.err, <<>>)
        /\ UNCHANGED <<data, phase, begun, shadow, dirty, mapVars, segVars, extVars>>

\* Commit of the mapping's transaction. After a fault there is no process, so
\* no mapping either.
DoMapTxCommit ==
    \E reused \in BOOLEAN :
        \E r \in {MapTxCommit(tx, m, mphase = "closed", kern.mapped, reused)} :
        /\ mphase # "none"
        /\ phase # "none"
        /\ (reused => mphase = "closed" /\ ~kern.mapped /\ ~tx.snapshot.nil)
        /\ m' = r.m
        /\ tx' = [tx EXCEPT !.snapshot = r.snapshot]
        /\ phase' = IF r.err = Nil THEN "committed" ELSE phase
        /\ last' = Call("Commit", 0, 0, r.n, r.err, IF r.stray THEN <<1>> ELSE <<>>)
        /\ mphase' = IF r.err = SegFault THEN "none" ELSE mphase
        /\ written' = NoWrite
        /\ UNCHANGED <<data, begun, shadow, dirty, mlast, file, fdOpen, kern,
                       opened, unmaps, segVars, extVars>>

MapTxNext ==
    \/ DoMapBegin
    \/ DoMapTxWriteAt
    \/ DoMapTxCommit
    \/ DoMapWriteAt
    \/ DoMapReadAt
    \/ DoMapClose

SpecMapTx == MapInit /\ [][MapTxNext]_vars


\* ------------------------------------------------------------------ Open and
\* Close on windows/amd64
\* Open duplicates the caller's file handle, creates a file-mapping object on
\* the duplicate and maps a view of it; Close flushes, unmaps the view and
\* closes the two handles (mmap_windows_amd64.go).

\* The system calls of Open in order, and what each acquires when it succeeds.
WinOpenCalls ==
    <<"GetCurrentProcess", "DuplicateHandle", "CreateFileMapping", "MapViewOfFile">>

WinAcquires(name) ==
    IF name = "DuplicateHandle" THEN {"hFile"}
    ELSE IF name = "CreateFileMapping" THEN {"hMapping"}
    ELSE IF name = "MapViewOfFile" THEN {"view"}
    ELSE {}

\* The calls of WinOpenCalls made up to and including the one that fails.
WinOpenIssued(fail) ==
    IF \E i \in 1..Len(WinOpenCalls) : WinOpenCalls[i] = fail
    THEN LET i == CHOOSE j \in 1..Len(WinOpenCalls) : WinOpenCalls[j] = fail
         IN  SubSeq(WinOpenCalls, 1, i)
    ELSE WinOpenCalls

\* Open(fd, offset, length, mode, flags) on windows/amd64; fail: the system
\* call that returns an error, if any (DuplicateHandle does when the caller's
\* handle is closed). held is what the calls that succeeded acquired and Open
\* has not released when it returns.
WinOpen(f, fd, offset, length, mode, flags, fail) ==
    IF offset < 0
    THEN [err |-> MmapErrBadOffset, m |-> ZeroMapping, sys |-> <<>>, held |-> {},
          kern |-> NoKern]
    ELSE IF length > MaxInt
    THEN [err |-> MmapErrBadLength, m |-> ZeroMapping, sys |-> <<>>, held |-> {},
          kern |-> NoKern]
    ELSE IF mode < ModeReadOnly \/ mode > ModeWriteCopy
    THEN [err |-> MmapErrBadMode, m |-> ZeroMapping, sys |-> <<>>, held |-> {},
          kern |-> NoKern]
    ELSE LET failing == IF ~fd /\ fail \notin {"GetCurrentProcess"}
                        THEN "DuplicateHandle"
                        ELSE fail
             sys == WinOpenIssued(failing)
             done == {sys[i] : i \in 1..Len(sys)} \ {failing}
             held == UNION {WinAcquires(name) : name \in done}
             outerOffset == offset \div PageSize
             innerOffset == offset % PageSize
             alignedLength == innerOffset + length
             req == [mapped |-> "view" \in held,
                     flags |-> IF mode = ModeWriteCopy THEN MAP_PRIVATE ELSE MAP_SHARED,
                     offset |-> outerOffset, length |-> alignedLength,
                     inner |-> innerOffset]
         IN  IF failing \in {sys[i] : i \in 1..Len(sys)}
             THEN [err |-> SyscallError(failing), m |-> ZeroMapping, sys |-> sys,
                   held |-> held, kern |-> req]
             ELSE [err |-> Nil,
                   m |-> [writable |-> mode > ModeReadOnly,
                          executable |-> AndFlagExecutable(flags) # 0,
                          locked |-> FALSE,
                          memory |-> [nil |-> FALSE,
                                      bytes |-> Slice(f, outerOffset + innerOffset,
                                                      outerOffset + innerOffset + length)]],
                   sys |-> sys, held |-> held, kern |-> req]

\* (*Mapping).Close() on windows/amd64; fail: the system call that returns an
\* error, if any ("hMapping" and "hFile" stand for the CloseHandle of each).
\* released is what the calls that succeeded gave back.
WinClose(mp, fail) ==
    IF mp.memory.nil
    THEN [err |-> MmapErrClosed, m |-> mp, sys |-> <<>>, released |-> {}]
    ELSE LET flush == IF ~mp.writable THEN <<>>
                      ELSE IF fail = "FlushViewOfFile" THEN <<"FlushViewOfFile">>
                      ELSE <<"FlushViewOfFile", "FlushFileBuffers">>
             unlock == IF mp.locked THEN <<"VirtualUnlock">> ELSE <<>>
             sys == flush \o unlock \o <<"UnmapViewOfFile", "CloseHandle", "CloseHandle">>
             failed == \/ fail \in {"UnmapViewOfFile", "hMapping", "hFile"}
                       \/ \E i \in 1..Len(flush \o unlock) : (flush \o unlock)[i] = fail
         IN  [err |-> IF ~failed THEN Nil
                      ELSE IF fail \in {"hMapping", "hFile"}
                      THEN SyscallError("CloseHandle")
                      ELSE SyscallError(fail),
              m |-> ZeroMapping,
              sys |-> sys,
              released |-> {"view", "hMapping", "hFile"}
                           \ (IF fail = "UnmapViewOfFile" THEN {"view"} ELSE {fail})]

WinOffsets == {-1, 0}

WinOpenFailures == {"none"} \cup {WinOpenCalls[i] : i \in 1..Len(WinOpenCalls)}

WinCloseFailures ==
    {"none", "FlushViewOfFile", "FlushFileBuffers", "UnmapViewOfFile",
     "hMapping", "hFile"}

\* Open while no mapping is open, MaxCalls times at most.
DoWinOpen ==
    /\ mphase # "open"
    /\ host.opens < MaxCalls
    /\ \E offset \in WinOffsets, length \in OpenLengths, mode \in OpenModes,
          flags \in OpenFlags, fail \in WinOpenFailures :
        \E r \in {WinOpen(file, fdOpen, offset, length, mode, flags, fail)} :
        /\ m' = r.m
        /\ kern' = r.kern
        /\ mlast' = MapCall("Open", offset, length, 0, r.err, <<>>, r.sys)
        /\ opened' = [mode |-> mode, flags |-> flags]
        /\ mphase' = IF r.err = Nil THEN "open" ELSE mphase
        /\ host' = [host EXCEPT
                      !.opens = host.opens + 1,
                      !.handles = host.handles
                                  \cup {<<host.opens + 1, name>> : name \in r.held}]
        /\ UNCHANGED <<file, fdOpen, unmaps, written, txVars, segVars, fs, txs, mseg>>

\* Close of the mapping the last Open returned: a flush or an unmapping that
\* succeeds carries the bytes of a shared view through to the file.
DoWinClose ==
    /\ mphase # "none"
    /\ \E fail \in WinCloseFailures :
        \E r \in {WinClose(m, fail)} :
        /\ m' = r.m
        /\ mlast' = MapCall("Close", 0, 0, 0, r.err, <<>>, r.sys)
        /\ file' = IF r.sys # <<>> THEN Carry(file, kern, m.memory.bytes) ELSE file
        /\ kern' = IF "view" \in r.released
                   THEN [kern EXCEPT !.mapped = FALSE]
                   ELSE kern
        /\ unmaps' = IF r.sys # <<>> THEN Min(unmaps + 1, 2) ELSE unmaps
        /\ mphase' = "closed"
        /\ written' = NoWrite
        /\ host' = [host EXCEPT
                      !.handles = host.handles
                                  \ {<<host.opens, name>> : name \in r.released}]
        /\ UNCHANGED <<fdOpen, opened, txVars, segVars, fs, txs, mseg>>

WinNext ==
    \/ DoWinOpen
    \/ DoMapReadAt
    \/ DoWinClose
    \/ DoFdClose

SpecWin == OpenInit /\ [][WinNext]_vars

\* ------------------------------------------------------------------ claims

TxIO == {"ReadAt", "WriteAt"}

TxLen == tx.highOffset - tx.lowOffset

\* The original's bytes under the transaction's window.
Window == Slice(data, tx.lowOffset, tx.highOffset)

\* The last call asked for a range that does not fit in [lowOffset, highOffset).
PastWindow ==
    \/ last.offset < tx.lowOffset
    \/ last.offset > tx.highOffset - last.len

\* C1: every Tx.ReadAt that returns a nil error hands back the bytes the store
\* held under the window at Begin, overlaid with the transaction's own
\* successful WriteAts (shadow), whatever was written to the store directly
\* after Begin.
C1_SnapshotIndependence ==
    (last.op = "ReadAt" /\ last.err = Nil) =>
        \A k \in 1..last.n :
            last.out[k] = shadow[last.offset - tx.lowOffset + k]

\* A ReadAt succeeded after a direct write made the store differ from the
\* bytes the transaction hands back.
C1_Witness ==
    /\ phase = "open"
    /\ dirty
    /\ last.op = "ReadAt"
    /\ last.err = Nil
    /\ last.n = TxLen
    /\ last.out = shadow
    /\ last.out # Window

\* C2: while the transaction is open no ReadAt or WriteAt, accepted or
\* rejected, changes a byte of the original store.
C2_IOLeavesOriginal ==
    [][(phase = "open" /\ last'.op \in TxIO) => (data' = data)]_vars

\* A WriteAt changed the snapshot and the store still is what it was at Begin.
C2_Witness ==
    /\ phase = "open"
    /\ last.op = "WriteAt"
    /\ last.err = Nil
    /\ last.n > 0
    /\ tx.snapshot.bytes # Window
    /\ data = begun

\* C3: Commit on an open transaction returns nil and leaves the original's
\* window equal to the snapshot as it stood just before, which is the Begin-time
\* bytes overlaid with the successful WriteAts.
C3_CommitFlushes ==
    [][(phase = "open" /\ last'.op = "Commit") =>
          (/\ last'.err = Nil
           /\ Slice(data', tx.lowOffset, tx.highOffset) = tx.snapshot.bytes
           /\ tx.snapshot.bytes = shadow)]_vars

\* A Commit of a window that does not start at 0 changed the store.
C3_Witness ==
    /\ phase = "committed"
    /\ last.op = "Commit"
    /\ last.err = Nil
    /\ tx.lowOffset > 0
    /\ Window = shadow
    /\ begun # <<>>
    /\ data # begun

\* C4: Rollback on an open transaction returns nil, and when every call since
\* Begin was a ReadAt or WriteAt of the transaction the original store is what
\* it was just before Begin.
C4_RollbackNoOp ==
    [][(phase = "open" /\ last'.op = "Rollback") =>
          (/\ last'.err = Nil
           /\ (begun # <<>> => data' = begun))]_vars

\* A Rollback after the transaction had written bytes that differ from the
\* store's.
C4_Witness ==
    /\ phase = "rolledback"
    /\ last.op = "Rollback"
    /\ last.err = Nil
    /\ begun # <<>>
    /\ data = begun
    /\ shadow # Window

\* C5: the first Commit returns nil, a Commit of a committed transaction
\* returns ErrClosed and copies nothing, also when the original was modified
\* in between.
C5_CommitOnce ==
    [][(last'.op = "Commit") =>
          (/\ (phase = "open" => (last'.err = Nil /\ phase' = "committed"))
           /\ (phase = "committed" =>
                  (last'.err = ErrClosed /\ data' = data /\ phase' = "committed")))]_vars

\* A second Commit failed after a direct write had changed the committed window.
C5_Witness ==
    /\ phase = "committed"
    /\ last.op = "Commit"
    /\ last.err = ErrClosed
    /\ dirty
    /\ Window # shadow

\* C6: once Commit or Rollback has returned nil the transaction stays closed:
\* every later ReadAt, WriteAt, Commit and Rollback returns ErrClosed (count 0)
\* and changes neither the original nor the caller's buffer.
C6_Terminal ==
    [][(phase \in {"committed", "rolledback"}) =>
          (/\ phase' = phase
           /\ tx'.snapshot.nil
           /\ (last'.op \in (TxIO \cup {"Commit", "Rollback"}) =>
                  (/\ last'.err = ErrClosed
                   /\ last'.n = 0
                   /\ data' = data))
           /\ (last'.op = "ReadAt" => (last'.out = Make(last'.len).bytes)))]_vars

\* A WriteAt inside the window was refused after Rollback.
C6_Witness ==
    /\ phase = "rolledback"
    /\ tx.snapshot.nil
    /\ last.op = "WriteAt"
    /\ last.err = ErrClosed
    /\ last.len > 0
    /\ ~PastWindow

\* C7: on an open transaction ReadAt and WriteAt are rejected with
\* ErrOutOfBounds whenever [o, o + len(buf)) does not fit in
\* [lowOffset, highOffset).
C7_RejectsPastWindow ==
    (phase = "open" /\ last.op \in TxIO /\ PastWindow) =>
        last.err = ErrOutOfBounds

\* C8: a ReadAt or WriteAt whose buffer extends past the window returns
\* ErrOutOfBounds with count 0 and copies nothing: the caller's buffer and the
\* snapshot are as before the call.
C8_FullReject ==
    [][(/\ phase = "open"
        /\ last'.op \in TxIO
        /\ last'.offset >= tx.lowOffset
        /\ last'.offset <= tx.highOffset
        /\ last'.offset > tx.highOffset - last'.len) =>
          (/\ last'.err = ErrOutOfBounds
           /\ last'.n = 0
           /\ tx' = tx
           /\ (last'.op = "ReadAt" => last'.out = Make(last'.len).bytes))]_vars

MapIO == {"ReadAt", "WriteAt"}

MemSize == Len(m.memory.bytes)

\* C9: on an open writable mapping of length L a ReadAt or WriteAt with
\* o + len(buf) > L returns ErrOutOfBounds with count 0 and copies nothing: the
\* caller's buffer and the mapped memory are as before the call.
C9_MapFullReject ==
    [][(/\ ~m.memory.nil
        /\ m.writable
        /\ mlast'.op \in MapIO
        /\ mlast'.offset > MemSize - mlast'.len) =>
          (/\ mlast'.err = MmapErrOutOfBounds
           /\ mlast'.n = 0
           /\ m' = m
           /\ (mlast'.op = "ReadAt" => mlast'.out = Make(mlast'.len).bytes))]_vars

\* A WriteAt that starts inside the mapped memory and runs past its end was
\* rejected.
C9_Witness ==
    /\ ~m.memory.nil
    /\ m.writable
    /\ mlast.op = "WriteAt"
    /\ mlast.err = MmapErrOutOfBounds
    /\ mlast.offset >= 0
    /\ mlast.offset < MemSize
    /\ mlast.offset + mlast.len > MemSize

\* C10: on an open mapping of length L ReadAt and WriteAt (on a writable
\* mapping) fail with the out-of-bounds error for every offset outside [0, L)
\* and every buffer, a zero-length buffer at o = L included.
C10_RejectsOffsetOutside ==
    (/\ ~m.memory.nil
     /\ \/ mlast.op = "ReadAt"
        \/ mlast.op = "WriteAt" /\ m.writable
     /\ (mlast.offset < 0 \/ mlast.offset >= MemSize)) =>
        mlast.err = MmapErrOutOfBounds

MapOps == {"ReadAt", "WriteAt", "Lock", "Unlock", "Sync", "Begin", "Close"}

\* The mapping is open (Open succeeded and Close was not called).
IsOpen == ~m.memory.nil

\* The call issued the system call `name`.
Issued(call, name) == \E i \in 1..Len(call.sys) : call.sys[i] = name

\* C11: on an open ModeReadWrite mapping of length L a WriteAt(B, o) with
\* 0 <= o and o + len(B) <= L returns (len(B), nil), and the next call, a ReadAt
\* of len(B) bytes at o, returns (len(B), nil) with exactly B, the caller's file
\* descriptor closed in between or not.
C11_RoundTrip ==
    [][(/\ ((IsOpen /\ m.writable /\ mlast'.op = "WriteAt"
                /\ mlast'.offset >= 0 /\ mlast'.offset <= MemSize - mlast'.len) =>
               (mlast'.n = mlast'.len /\ mlast'.err = Nil /\ written'.some))
        /\ ((written.some /\ mlast'.op = "ReadAt"
                /\ mlast'.offset = written.offset
                /\ mlast'.len = Len(written.buf)) =>
               (/\ mlast'.n = Len(written.buf)
                /\ mlast'.err = Nil
                /\ mlast'.out = written.buf)))]_vars

\* A ReadAt after the descriptor was closed returned all of the memory, which a
\* WriteAt at an offset above 0 had changed.
C11_Witness ==
    /\ IsOpen
    /\ m.writable
    /\ ~fdOpen
    /\ mlast.op = "ReadAt"
    /\ mlast.err = Nil
    /\ mlast.offset = 1
    /\ mlast.len = MemSize - 1
    /\ mlast.out = Slice(m.memory.bytes, 1, MemSize)
    /\ mlast.out # Slice(file, 1, MemSize)
    /\ mlast.out # Slice(m.memory.bytes, 0, MemSize - 1)

\* C12: munmap is issued at most once on a mapping: the first Close issues it,
\* every later Close returns ErrClosed and issues no system call.
C12_UnmapOnce ==
    [][(/\ unmaps' <= 1
        /\ ((mphase = "open" /\ mlast'.op = "Close") =>
               (unmaps' = 1 /\ Issued(mlast', "munmap")))
        /\ ((mphase = "closed" /\ mlast'.op = "Close") =>
               (/\ mlast'.err = MmapErrClosed
                /\ mlast'.sys = <<>>
                /\ unmaps' = unmaps
                /\ kern' = kern)))]_vars

\* A second Close, after a first one whose munmap failed.
C12_Witness ==
    /\ mphase = "closed"
    /\ mlast.op = "Close"
    /\ mlast.err = MmapErrClosed
    /\ unmaps = 1
    /\ kern.mapped

\* C13: once Close was called, whatever it returned, every ReadAt, WriteAt,
\* Lock, Unlock, Sync, Begin and Close returns ErrClosed, issues no system call
\* and touches neither the memory, the file, the caller's buffer nor a
\* transaction, whatever the mode and the lock state of the mapping were.
C13_ClosedForGood ==
    [][(mphase = "closed") =>
          (/\ mphase' = "closed"
           /\ m' = ZeroMapping
           /\ (mlast'.op \in MapOps =>
                  (/\ mlast'.err = MmapErrClosed
                   /\ mlast'.n = 0
                   /\ mlast'.sys = <<>>
                   /\ file' = file
                   /\ kern' = kern
                   /\ tx' = tx
                   /\ phase' = phase))
           /\ (mlast'.op = "ReadAt" => mlast'.out = Make(mlast'.len).bytes))]_vars

\* An Unlock was refused as closed on a mapping that was read-only and whose
\* Close had failed to unlock.
C13_Witness ==
    /\ mphase = "closed"
    /\ opened.mode = ModeReadOnly
    /\ kern.mapped
    /\ mlast.op = "Unlock"
    /\ mlast.err = MmapErrClosed

\* The system calls the first Close of mp has to issue.
TeardownOf(mp) ==
    (IF mp.writable THEN <<"msync">> ELSE <<>>)
    \o (IF mp.locked THEN <<"munlock">> ELSE <<>>)
    \o <<"munmap">>

\* C14: whichever of flush, unpin and unmap fail in the first Close, Close
\* attempts each of the steps, leaves the mapping closed (a later Close returns
\* ErrClosed and releases nothing), and returns an error of one of the failed
\* steps; it returns nil only if every step succeeded.
C14_CloseAggregates ==
    /\ IsOpen =>
          \A syncOk \in BOOLEAN, unlockOk \in BOOLEAN, unmapOk \in BOOLEAN :
              LET r == MapClose(m, syncOk, unlockOk, unmapOk)
                  failed == (IF m.writable /\ ~syncOk THEN {SyscallError("msync")} ELSE {})
                      \cup (IF m.locked /\ ~unlockOk THEN {SyscallError("munlock")} ELSE {})
                      \cup (IF ~unmapOk THEN {SyscallError("munmap")} ELSE {})
              IN  /\ r.sys = TeardownOf(m)
                  /\ r.m.memory.nil
                  /\ (failed = {} => r.err = Nil)
                  /\ (failed # {} => r.err \in failed)
                  /\ MapClose(r.m, TRUE, TRUE, TRUE).err = MmapErrClosed
                  /\ MapClose(r.m, TRUE, TRUE, TRUE).sys = <<>>
    /\ (mlast.op = "Close" /\ mlast.err # MmapErrClosed) =>
          (/\ m.memory.nil
           /\ mphase = "closed"
           /\ Issued(mlast, "munmap")
           /\ (mlast.err = Nil => ~kern.mapped))

\* The first Close of a writable locked mapping failed to unpin, went on to
\* unmap and left the mapping closed.
C14_Witness ==
    /\ mphase = "closed"
    /\ m.memory.nil
    /\ mlast.op = "Close"
    /\ mlast.err = SyscallError("munlock")
    /\ mlast.sys = <<"msync", "munlock", "munmap">>
    /\ ~kern.mapped

\* C15: on an open mapping Lock when locked returns ErrLocked and Unlock when
\* not locked returns ErrNotLocked; neither issues a system call or changes the
\* mapping.
C15_LockStateErrors ==
    [][(/\ ((IsOpen /\ m.locked /\ mlast'.op = "Lock") =>
               (mlast'.err = MmapErrLocked /\ mlast'.sys = <<>> /\ m' = m))
        /\ ((IsOpen /\ ~m.locked /\ mlast'.op = "Unlock") =>
               (mlast'.err = MmapErrNotLocked /\ mlast'.sys = <<>> /\ m' = m)))]_vars

\* A Lock was refused on a locked mapping.
C15_Witness ==
    /\ IsOpen
    /\ m.locked
    /\ mlast.op = "Lock"
    /\ mlast.err = MmapErrLocked

\* C16: on an open mapping that is not writable WriteAt, Sync and Begin return
\* ErrReadOnly, change no byte of the memory or the file, issue no system call
\* and create no transaction; a ReadAt within bounds succeeds.
C16_ReadOnly ==
    [][(IsOpen /\ ~m.writable) =>
          (/\ (mlast'.op \in {"WriteAt", "Sync", "Begin"} =>
                  (/\ mlast'.err = MmapErrReadOnly
                   /\ mlast'.n = 0
                   /\ mlast'.sys = <<>>
                   /\ m' = m
                   /\ file' = file
                   /\ tx' = tx
                   /\ phase' = phase))
           /\ ((mlast'.op = "ReadAt" /\ mlast'.offset >= 0
                    /\ mlast'.offset <= MemSize - mlast'.len) =>
                  (/\ mlast'.err = Nil
                   /\ mlast'.n = mlast'.len
                   /\ mlast'.out = Slice(m.memory.bytes, mlast'.offset,
                                         mlast'.offset + mlast'.len))))]_vars

\* A WriteAt within bounds was refused on a read-only mapping.
C16_Witness ==
    /\ IsOpen
    /\ ~m.writable
    /\ mlast.op = "WriteAt"
    /\ mlast.err = MmapErrReadOnly
    /\ mlast.len > 0
    /\ mlast.offset >= 0
    /\ mlast.offset + mlast.len <= MemSize

\* The errors Open owes to the arguments of the last call.
OpenArgErrors ==
    (IF mlast.offset < 0 THEN {MmapErrBadOffset} ELSE {})
    \cup (IF mlast.len > MaxInt THEN {MmapErrBadLength} ELSE {})
    \cup (IF opened.mode \notin {ModeReadOnly, ModeReadWrite, ModeWriteCopy}
          THEN {MmapErrBadMode} ELSE {})

\* C17: Open returns ErrBadOffset for offset < 0, ErrBadLength for a length
\* above MaxInt and ErrBadMode for a mode that is none of the three; in each
\* case it returns no mapping and issues no system call.
C17_OpenValidates ==
    (mlast.op = "Open" /\ OpenArgErrors # {}) =>
        (/\ mlast.err \in OpenArgErrors
         /\ mlast.sys = <<>>
         /\ m = ZeroMapping
         /\ mphase = "none"
         /\ ~kern.mapped)

\* Open refused a mode above ModeWriteCopy, the offset and the length being
\* valid.
C17_Witness ==
    /\ mlast.op = "Open"
    /\ mlast.err = MmapErrBadMode
    /\ opened.mode > ModeWriteCopy
    /\ mlast.offset >= 0
    /\ mlast.len > 0
    /\ mlast.len <= MaxInt

\* C18: Open (with a valid mode) with a negative offset, a zero length or
\* offset + length above the file's size fails with ErrBadOffset or
\* ErrBadLength and does not reach the mmap system call.
C18_OpenBounds ==
    (/\ mlast.op = "Open"
     /\ opened.mode \in {ModeReadOnly, ModeReadWrite, ModeWriteCopy}
     /\ \/ mlast.offset < 0
        \/ mlast.len = 0
        \/ mlast.offset + mlast.len > Len(file)) =>
        (/\ mlast.err \in {MmapErrBadOffset, MmapErrBadLength}
         /\ mlast.sys = <<>>)

\* C19: for every offset >= 0 Open asks the kernel for innerOffset + length
\* bytes from file byte outerOffset * pageSize on, and byte i of the memory it
\* exposes is byte offset + i of the file.
C19_OpenAlignment ==
    (mlast.op = "Open" /\ mlast.sys = <<"mmap">>) =>
        (/\ kern.offset = (mlast.offset \div PageSize) * PageSize
         /\ kern.length = (mlast.offset % PageSize) + mlast.len
         /\ (mlast.err = Nil =>
                (/\ Len(m.memory.bytes) = mlast.len
                 /\ \A i \in 1..mlast.len :
                        mlast.offset + i <= Len(file) =>
                            m.memory.bytes[i] = file[mlast.offset + i])))

\* C20: whatever is written through a mapping opened ModeWriteCopy, synced and
\* closed, the file's bytes stay what they were before the writes.
C20_WriteCopyIsolation ==
    (mphase # "none" /\ opened.mode = ModeWriteCopy) => file = InitialFile


\* The file offset the caller gave to Open: the page index handed to mmap
\* times the page size, plus the offset inside the page.
OpenedAt == kern.offset * PageSize + kern.inner

\* C21: on a mapping opened ModeReadWrite, once WriteAt(B, o) has succeeded and
\* Sync has returned nil, the file's bytes at [offset + o, offset + o + len(B))
\* are B.
C21_SharedSync ==
    [][(/\ mlast'.op = "Sync"
        /\ mlast'.err = Nil
        /\ written.some
        /\ opened.mode = ModeReadWrite) =>
            (\A i \in 1..Len(written.buf) :
                /\ OpenedAt + written.offset + i <= Len(file')
                /\ file'[OpenedAt + written.offset + i] = written.buf[i])]_vars



\* ------------------------------------------------------------------ claims on the segment

\* The offset of the i-th argument of a call: the call's offset plus the sizes
\* of the arguments before it.
RECURSIVE SlotOffset(_, _, _)
SlotOffset(offset, args, i) ==
    IF i <= 1 THEN offset
    ELSE SlotOffset(offset, args, i - 1) + SizeOf(args[i - 1].type)

\* The unsigned integer stored for the i-th argument of a call in bytes s,
\* most significant byte first.
StoredAt(s, offset, args, i) ==
    BigEndianUint(Slice(s, SlotOffset(offset, args, i),
                        SlotOffset(offset, args, i + 1)))

SegValuesOf(args) == [i \in 1..Len(args) |-> args[i].value]

\* C22: after Set(offset, values) has stored values of the four unsigned types,
\* Get(offset, pointers of the same types in the same order) returns nil and
\* leaves exactly those values in the variables.
C22_GetSet ==
    [][(/\ slast.op = "Set"
        /\ slast.err = Nil
        /\ slast'.op = "Get") =>
            (/\ slast'.err = Nil
             /\ SegValuesOf(slast'.out) = SegValuesOf(slast.args)
             /\ dest' = slast'.out)]_vars

\* Set and then Get of a uint16 and a uint32 that changed both variables.
C22_Witness ==
    /\ slast.op = "Get"
    /\ slast.seq = 2
    /\ slast.err = Nil
    /\ slast.before = CopyAt(slast.before, slast.offset, StoreLen,
                             <<0, 1, 0, 0, 0, 2>>)
    /\ Len(slast.out) = 2
    /\ slast.out[1].type = "uint16"
    /\ slast.out[2].type = "uint32"
    /\ slast.out = fix.in
    /\ SegValuesOf(slast.out) = <<1, 2>>
    /\ SegValuesOf(slast.args) = <<MaxUint8, MaxUint8 - 1>>



\* The argument list uint8 1, uint16 2, uint32 3.
OneTwoThree ==
    <<[type |-> "uint8", value |-> 1], [type |-> "uint16", value |-> 2],
      [type |-> "uint32", value |-> 3]>>

\* C23: Set(k, v0, v1, ...) that returns nil has written value i at k plus the
\* widths of the values before it, most significant byte first, with no
\* padding, and has changed no byte outside [k, k + total width); Set(k,
\* uint8 1, uint16 2, uint32 3) leaves the bytes 01 00 02 00 00 00 03 at k.
C23_SetLayout ==
    (slast.op = "Set" /\ slast.err = Nil) =>
        (/\ \A p \in 1..StoreLen :
                IF \E i \in 1..Len(slast.args) :
                       /\ p > SlotOffset(slast.offset, slast.args, i)
                       /\ p <= SlotOffset(slast.offset, slast.args, i + 1)
                THEN \A i \in 1..Len(slast.args) :
                        (/\ p > SlotOffset(slast.offset, slast.args, i)
                         /\ p <= SlotOffset(slast.offset, slast.args, i + 1)) =>
                            store[p] =
                                (slast.args[i].value
                                    \div Pow(ByteBase,
                                             SlotOffset(slast.offset, slast.args,
                                                        i + 1) - p)) % ByteBase
                ELSE store[p] = slast.before[p]
         /\ (slast.args = OneTwoThree =>
                Slice(store, slast.offset, slast.offset + 7)
                    = <<1, 0, 2, 0, 0, 0, 3>>))

\* Set(1, uint8 1, uint16 2, uint32 3) has returned nil and changed the bytes.
C23_Witness ==
    /\ slast.op = "Set"
    /\ slast.err = Nil
    /\ slast.offset = 1
    /\ slast.args = OneTwoThree
    /\ store # slast.before
    /\ store[1] = slast.before[1]



\* C24: Swap(offset, pointers) that returns nil has given every variable the
\* value stored at its slot and stored the variable's old value there, so the
\* Get that follows returns the values the variables held before the Swap.
C24_Swap ==
    [][(/\ ((slast'.op = "Swap" /\ slast'.err = Nil) =>
                (\A i \in 1..Len(dest) :
                    /\ dest'[i].value = StoredAt(store, slast'.offset, dest, i)
                    /\ StoredAt(store', slast'.offset, dest, i) = dest[i].value))
        /\ ((slast.op = "Swap" /\ slast.err = Nil /\ slast'.op = "Get") =>
                (/\ slast'.err = Nil
                 /\ SegValuesOf(slast'.out) = SegValuesOf(slast.args))))]_vars

\* Swap and then Get of a uint16 and a uint32: the variables hold again what
\* they held at first, and held something else in between.
C24_Witness ==
    /\ slast.op = "Get"
    /\ slast.seq = 2
    /\ slast.err = Nil
    /\ Len(slast.out) = 2
    /\ slast.out[1].type = "uint16"
    /\ slast.out[2].type = "uint32"
    /\ slast.out = Destinations(fix.in)
    /\ slast.args[1].value # slast.out[1].value
    /\ slast.args[2].value # slast.out[2].value



\* The width in bytes of the i-th argument.
WidthOf(args, i) == SizeOf(args[i].type)

\* C25: Inc adds each delta to the stored value and Dec subtracts it, modulo
\* the number of values of the type (8, 16, 32 or 64 bits), so the largest
\* value plus d reads back as d - 1; Inc and then Dec with the same deltas
\* leaves the bytes as they were.
C25_IncDec ==
    [][(/\ ((slast'.op = "Inc" /\ slast'.err = Nil) =>
                (\A i \in 1..Len(slast'.args) :
                    StoredAt(store', slast'.offset, slast'.args, i)
                        = (StoredAt(store, slast'.offset, slast'.args, i)
                              + slast'.args[i].value)
                            % Modulus(WidthOf(slast'.args, i))))
        /\ ((slast'.op = "Dec" /\ slast'.err = Nil) =>
                (\A i \in 1..Len(slast'.args) :
                    StoredAt(store, slast'.offset, slast'.args, i)
                        = (StoredAt(store', slast'.offset, slast'.args, i)
                              + slast'.args[i].value)
                            % Modulus(WidthOf(slast'.args, i))))
        /\ ((slast.op = "Inc" /\ slast.err = Nil /\ slast'.op = "Get") =>
                (/\ slast'.err = Nil
                 /\ \A i \in 1..Len(slast.args) :
                        StoredAt(slast.before, slast.offset, slast.args, i)
                                = Modulus(WidthOf(slast.args, i)) - 1
                            => slast'.out[i].value = slast.args[i].value - 1))
        /\ ((slast.op = "Inc" /\ slast.err = Nil /\ slast'.op = "Dec") =>
                (/\ slast'.err = Nil
                 /\ store' = slast.before)))]_vars

\* Inc and then Dec of a uint16 and a uint32 that held their largest values:
\* the bytes are the largest again, and were not in between.
C25_Witness ==
    /\ slast.op = "Dec"
    /\ slast.seq = 2
    /\ slast.err = Nil
    /\ Len(slast.args) = 2
    /\ slast.args[1].type = "uint16"
    /\ slast.args[2].type = "uint32"
    /\ store = [i \in 1..StoreLen |-> ByteBase - 1]
    /\ StoredAt(slast.before, slast.offset, slast.args, 1) = slast.args[1].value - 1
    /\ StoredAt(slast.before, slast.offset, slast.args, 2) = slast.args[2].value - 1



SegOps == {"Get", "Set", "Swap", "Inc", "Dec"}

\* The slot the last driver call of the last Segment call was made for.
FailedSlot ==
    CHOOSE k \in 1..Len(slast.args) :
        SlotOffset(slast.offset, slast.args, k)
            = slast.calls[Len(slast.calls)].offset

\* The last Segment call cut down to its first n arguments, made on the bytes
\* it was made on.
PrefixCall(n) ==
    SegLoop(slast.op, slast.before, SubSeq(slast.args, 1, n), slast.offset,
            1, <<>>)

\* C26: when the driver's ReadAt or WriteAt fails on slot k of Get, Set, Swap,
\* Inc or Dec, the call returns the driver's error as it is, slots 0..k-1 have
\* had their whole effect on the store and on the variables, and the driver is
\* not called for any slot after k.
C26_DriverError ==
    (slast.op \in SegOps /\ slast.err \notin {Nil, SegErrUnknown}) =>
        (/\ slast.err = ErrTestUnavailable
         /\ slast.calls # <<>>
         /\ \E k \in {FailedSlot} :
            \E pre \in {PrefixCall(k - 1)} :
                /\ k \in 1..Len(slast.args)
                /\ pre.err = Nil
                /\ SubSeq(slast.calls, 1, Len(pre.calls)) = pre.calls
                /\ \A c \in 1..Len(slast.calls) :
                        slast.calls[c].offset
                            <= SlotOffset(slast.offset, slast.args, k)
                /\ \A p \in 1..StoreLen :
                        p <= SlotOffset(slast.offset, slast.args, k)
                            => store[p] = pre.d[p]
                /\ \A i \in 1..Len(slast.args) :
                        /\ i < k => slast.out[i] = pre.out[i]
                        /\ i > k => slast.out[i] = slast.args[i])

\* A Swap whose second slot the driver refused, after the first slot was
\* exchanged.
C26_Witness ==
    /\ slast.op = "Swap"
    /\ slast.err = ErrTestUnavailable
    /\ Len(slast.args) = 2
    /\ Len(slast.calls) = 3
    /\ slast.calls[3].op = "ReadAt"
    /\ store # slast.before
    /\ slast.out[1] # slast.args[1]
    /\ slast.out[2] = slast.args[2]

\* The first argument of the last Segment call whose type the type switch does
\* not know (0: none).
UnknownSlot ==
    IF \E i \in 1..Len(slast.args) : slast.args[i].type \notin UintTypes
    THEN CHOOSE i \in 1..Len(slast.args) :
            /\ slast.args[i].type \notin UintTypes
            /\ \A j \in 1..(i - 1) : slast.args[j].type \in UintTypes
    ELSE 0

\* C27: when the value at position k of Get, Set, Swap, Inc or Dec has a type
\* that is not supported, the call returns ErrUnknown, with slots 0..k-1
\* applied and no slot at or after k read or written.
C27_UnknownValue ==
    slast.op \in SegOps =>
        (/\ slast.err = SegErrUnknown => UnknownSlot # 0
         /\ UnknownSlot # 0 =>
                (\E k \in {UnknownSlot} :
                 \E pre \in {PrefixCall(k - 1)} :
                    pre.err = Nil =>
                        (/\ slast.err = SegErrUnknown
                         /\ store = pre.d
                         /\ slast.calls = pre.calls
                         /\ \A i \in 1..Len(slast.args) :
                                /\ i < k => slast.out[i] = pre.out[i]
                                /\ i >= k => slast.out[i] = slast.args[i])))

\* A Set of a uint16 and a value of unknown type: the uint16 is stored, the
\* call returns ErrUnknown after one driver call.
C27_Witness ==
    /\ slast.op = "Set"
    /\ slast.err = SegErrUnknown
    /\ Len(slast.args) = 2
    /\ slast.args[1].type = "uint16"
    /\ slast.args[2].type = "int"
    /\ Len(slast.calls) = 1
    /\ store # slast.before
    /\ StoredAt(store, slast.offset, slast.args, 1) = slast.args[1].value



\* ------------------------------------------------------------------ claims on the segment over memory

\* C28: on a Segment with base offset b over n bytes at address a,
\* Pointer(offset, length) returns a + (offset - b) when b <= offset and
\* (offset - b) + length <= n and panics with Fault in every other case, so
\* what it returns lies within the n bytes at a.
C28_Pointer ==
    slast.op = "Pointer" =>
        IF /\ pseg.offset <= slast.offset
           /\ slast.offset <= pseg.offset + pseg.data.Len
           /\ slast.length >= 0
           /\ slast.length <= pseg.data.Len - (slast.offset - pseg.offset)
        THEN /\ slast.err = Nil
             /\ slast.ptr = pseg.data.Data + (slast.offset - pseg.offset)
             /\ slast.ptr >= pseg.data.Data
             /\ slast.ptr + slast.length <= pseg.data.Data + pseg.data.Len
        ELSE slast.err = SegFault



\* The slot of the i-th variable of the last ScanUint lies in the data: it
\* starts at offset - baseOffset plus the widths before it.
ScanFits(i) ==
    /\ slast.offset >= pseg.offset
    /\ slast.offset <= pseg.offset + pseg.data.Len
    /\ SlotOffset(slast.offset - pseg.offset, slast.args, i + 1) <= pseg.data.Len

\* The first variable of the last ScanUint that has an unsupported type or a
\* slot that does not fit (0: none).
ScanFailed ==
    IF \E i \in 1..Len(slast.args) :
           slast.args[i].type \notin UintTypes \/ ~ScanFits(i)
    THEN CHOOSE i \in 1..Len(slast.args) :
            /\ slast.args[i].type \notin UintTypes \/ ~ScanFits(i)
            /\ \A j \in 1..(i - 1) :
                    slast.args[j].type \in UintTypes /\ ScanFits(j)
    ELSE 0

\* The value of the slot of the i-th variable of the last ScanUint, least
\* significant byte first.
ScanValue(i) ==
    LET lo == SlotOffset(slast.offset - pseg.offset, slast.args, i)
        w == WidthOf(slast.args, i)
    IN  BigEndianUint([j \in 1..w |-> store[lo + w + 1 - j]])

\* C29: ScanUint(offset, pointers) sweeps the slots as Get does, slot i right
\* after slot i-1 from offset - baseOffset on, and decodes each least
\* significant byte first; it returns ErrOutOfBounds when offset < baseOffset
\* or a slot does not lie in the data and ErrBadValue for a variable of an
\* unsupported type, the variables before the failing one written and the
\* others untouched.
C29_ScanUint ==
    slast.op = "ScanUint" =>
        IF slast.offset < pseg.offset
        THEN slast.err = SegErrOutOfBounds /\ slast.out = slast.args
        ELSE /\ slast.err =
                    (IF ScanFailed = 0 THEN Nil
                     ELSE IF slast.args[ScanFailed].type \notin UintTypes
                     THEN SegErrBadValue
                     ELSE SegErrOutOfBounds)
             /\ \A i \in 1..Len(slast.args) :
                    IF ScanFailed = 0 \/ i < ScanFailed
                    THEN /\ slast.out[i].value = ScanValue(i)
                         /\ slast.out[i].type = slast.args[i].type
                    ELSE slast.out[i] = slast.args[i]

\* A ScanUint of a uint16 and a uint32 from the second byte of a segment with
\* base offset 1: the variables hold the slots' bytes, least significant first.
C29_Witness ==
    /\ slast.op = "ScanUint"
    /\ pseg.offset = 1
    /\ slast.offset = 2
    /\ Len(slast.args) = 2
    /\ slast.args[1].type = "uint16"
    /\ slast.args[2].type = "uint32"
    /\ slast.err = Nil
    /\ store = [i \in 1..StoreLen |-> i % ByteBase]
    /\ slast.out[1].value = store[2] + ByteBase * store[3]
    /\ slast.out[1].value # store[3] + ByteBase * store[2]
    /\ slast.out[2].value # slast.args[2].value



\* ------------------------------------------------------------------ claims on Begin

\* C30: Begin(data, offset, length) fails with the out-of-bounds error and
\* makes no transaction exactly when length = 0, offset < 0, offset >=
\* len(data) or offset + length > len(data); otherwise it returns a transaction
\* with Offset() = offset, Length() = length and the snapshot
\* data[offset : offset+length]; data stays as it is either way.
C30_Begin ==
    [][last'.op = "Begin" =>
        (/\ data' = data
         /\ IF \/ last'.len = 0
               \/ last'.offset < 0
               \/ last'.offset >= Len(data)
               \/ last'.len > Len(data) - last'.offset
            THEN /\ last'.err = ErrOutOfBounds
                 /\ phase' = "none"
                 /\ tx' = NoTx
            ELSE /\ last'.err = Nil
                 /\ phase' = "open"
                 /\ Offset(tx') = last'.offset
                 /\ Length(tx') = last'.len
                 /\ ~tx'.snapshot.nil
                 /\ tx'.snapshot.bytes
                        = Slice(data, last'.offset, last'.offset + last'.len))]_vars

\* Begin(data, 1, 1) on a store whose first two bytes differ: the transaction
\* starts at 1, is one byte long and holds the second byte.
C30_Witness ==
    /\ last.op = "Begin"
    /\ last.err = Nil
    /\ last.offset = 1
    /\ last.len = 1
    /\ data[1] # data[2]
    /\ Offset(tx) = 1
    /\ Length(tx) = 1
    /\ tx.snapshot.bytes = <<data[2]>>

\* ------------------------------------------------------------------ OpenFile claims

\* The bytes of the initializer that are still in the file: those below the
\* smallest size the file was given since it was created.
InitBytes == Min(Len(fs.wrote), fs.span)

TeardownRank(name) ==
    IF name = "msync" THEN 1 ELSE IF name = "munlock" THEN 2
    ELSE IF name = "munmap" THEN 3 ELSE 0

\* C32: the first Close of an open mapping issues its system calls in the
\* order flush, unpin, unmap, each at most once: the flush exactly if the
\* mapping is writable, the unpin exactly if it is locked, the unmap always and
\* last, whichever of them fail.
C32_CloseOrder ==
    [][(IsOpen /\ mlast'.op = "Close") =>
          LET sys == mlast'.sys IN
          /\ Issued(mlast', "msync") <=> m.writable
          /\ Issued(mlast', "munlock") <=> m.locked
          /\ Len(sys) >= 1
          /\ sys[Len(sys)] = "munmap"
          /\ \A i \in 1..Len(sys) : TeardownRank(sys[i]) > 0
          /\ \A i \in 1..Len(sys), j \in 1..Len(sys) :
                i < j => TeardownRank(sys[i]) < TeardownRank(sys[j])
      ]_vars

\* The first Close of a read-only locked mapping unpinned and unmapped without
\* a flush, although the unpin failed.
C32_Witness ==
    /\ mphase = "closed"
    /\ ~opened.mode > ModeReadOnly
    /\ mlast.op = "Close"
    /\ mlast.sys = <<"munlock", "munmap">>
    /\ mlast.err = SyscallError("munlock")

\* C33: while a mapping is open, it is writable exactly if the mode Open was
\* called with is not ModeReadOnly, and executable exactly if FlagExecutable
\* was set in the flags Open was called with.
C33_Permissions ==
    IsOpen =>
        /\ m.writable = (opened.mode # ModeReadOnly)
        /\ m.executable = (AndFlagExecutable(opened.flags) # 0)

\* ------------------------------------------------------------------ two transactions' claims

\* Store index k lies in the window of transaction i.
InWindow(i, k) == txs[i].tx.lowOffset < k /\ k <= txs[i].tx.highOffset

\* C34: Commit of an open transaction never reports a conflict: it returns nil
\* and leaves original[lowOffset:highOffset] equal to the snapshot as it stood,
\* whatever was written to that range since Begin, directly or by the Commit
\* of another transaction; where the window overlaps that of a transaction
\* already committed, the store holds the bytes of the one committing now.
C34_BlindCommit ==
    [][(last'.op = "Commit") =>
          (/\ last'.err = Nil
           /\ \E i \in TxIds : txs[i].phase = "open" /\ txs'[i].phase = "committed"
           /\ \A i \in TxIds :
                (txs[i].phase = "open" /\ txs'[i].phase = "committed") =>
                    /\ Slice(data', txs[i].tx.lowOffset, txs[i].tx.highOffset)
                          = txs[i].tx.snapshot.bytes
                    /\ \A j \in TxIds \ {i}, k \in 1..Len(data) :
                          (txs[j].phase = "committed" /\ InWindow(i, k) /\ InWindow(j, k))
                              => data'[k] = txs[i].tx.snapshot.bytes[k - txs[i].tx.lowOffset])
      ]_vars

\* Both transactions have committed, the second first; the first found its
\* window changed since its Begin and overwrote it: a byte the second had
\* committed now holds what the first wrote.
C34_Witness ==
    /\ \A i \in TxIds : txs[i].phase = "committed"
    /\ txs[2].nth = 1
    /\ txs[1].nth = 2
    /\ txs[1].clobbered
    /\ last.op = "Commit"
    /\ \E k \in 1..Len(data) :
          /\ InWindow(1, k)
          /\ InWindow(2, k)
          /\ txs[2].flushed[k - txs[2].tx.lowOffset] = 3
          /\ txs[1].flushed[k - txs[1].tx.lowOffset] = 2
          /\ data[k] = 2

\* ------------------------------------------------------------------ transaction claims, continued

\* C35: on an open transaction ReadAt and WriteAt return normally, without a
\* run-time panic, and when they return a nil error the count returned is
\* len(buf).
C35_NoPanic ==
    (phase = "open" /\ last.op \in TxIO) =>
        /\ last.err # Panic
        /\ (last.err = Nil => last.n = last.len)

\* ------------------------------------------------------------------ the mapping's Segment: claims

\* C36 as stated: on the Segment of a closed mapping every Get, Set, Swap, Inc
\* or Dec call with at least one value of a supported type returns the
\* mapping's ErrClosed and touches no memory.
C36_AnySupported ==
    [][(/\ mphase = "closed"
        /\ slast' # slast
        /\ slast'.op \in SegOps
        /\ \E i \in 1..Len(slast'.args) : slast'.args[i].type \in UintTypes) =>
          (/\ slast'.err = MmapErrClosed
           /\ m' = m
           /\ file' = file)]_vars

\* C36, amended: on the Segment of a closed mapping, obtained before or after
\* Close, every Get, Set, Swap, Inc or Dec call whose first value is of a
\* supported type returns the mapping's ErrClosed after one refused driver
\* call, and one whose first value is of another type returns ErrUnknown
\* without a driver call; either way the mapping, the file and the caller's
\* variables are as before.
C36_ClosedSegment ==
    [][(/\ mphase = "closed"
        /\ slast' # slast
        /\ slast'.op \in SegOps
        /\ Len(slast'.args) >= 1) =>
          (/\ slast'.err = IF slast'.args[1].type \in UintTypes
                           THEN MmapErrClosed
                           ELSE SegErrUnknown
           /\ Len(slast'.calls) = IF slast'.args[1].type \in UintTypes THEN 1 ELSE 0
           /\ slast'.out = slast'.args
           /\ m' = m
           /\ file' = file
           /\ kern' = kern)]_vars

\* A Swap of two values on a Segment obtained while the mapping was open,
\* called after Close, returned ErrClosed.
C36_Witness ==
    /\ mphase = "closed"
    /\ mseg.early
    /\ slast.op = "Swap"
    /\ Len(slast.args) = 2
    /\ slast.args[1].type = "uint16"
    /\ slast.err = MmapErrClosed
    /\ m.memory.nil


\* C37: while the mapping is open its locked flag says whether the last pin
\* or unpin system call that succeeded was a pin, and successful pins and unpins
\* alternate, the first being a pin; a Lock or Unlock whose system call fails
\* leaves the mapping as it was and returns that call's error after the one
\* attempt; the flag of a mapping that stays open changes only in a Lock or
\* Unlock whose system call succeeded.
C37_PinFlag ==
    [][/\ (mphase = "open" => m.locked = host.pinned)
       /\ ~host.twice
       /\ (mphase' = "open" => m'.locked = host'.pinned)
       /\ ~host'.twice
       /\ (/\ mlast'.op \in {"Lock", "Unlock"}
           /\ mlast'.sys # <<>>
           /\ host' = host
           => /\ m' = m
              /\ Len(mlast'.sys) = 1
              /\ mlast'.err = SyscallError(mlast'.sys[1]))
       /\ (/\ mphase' = "open"
           /\ m'.locked # m.locked
           => /\ mlast'.err = Nil
              /\ mlast'.sys = IF m.locked THEN <<"munlock">> ELSE <<"mlock">>
              /\ host'.pinned # host.pinned)]_vars

\* An Unlock of a locked mapping whose munlock failed: still locked, still pinned.
C37_Witness ==
    /\ mphase = "open"
    /\ mlast.op = "Unlock"
    /\ mlast.sys = <<"munlock">>
    /\ mlast.err = SyscallError("munlock")
    /\ m.locked
    /\ host.pinned


\* C38: no call of the transaction changes the length of the original store;
\* Commit changes no byte of it outside the window [lowOffset, highOffset);
\* Begin, ReadAt, WriteAt and Rollback, whatever they return, change no byte
\* of it at all.
C38_CommitStaysInWindow ==
    [][/\ Len(data') = Len(data)
       /\ (last'.op = "Commit" =>
              \A i \in 1..Len(data) :
                  (i <= tx.lowOffset \/ i > tx.highOffset) => data'[i] = data[i])
       /\ (last'.op \in {"Begin", "ReadAt", "WriteAt", "Rollback"} =>
              data' = data)]_vars

\* A Commit of a window that starts after the first byte has changed the
\* window and left the byte before it alone.
C38_Witness ==
    /\ phase = "committed"
    /\ last.op = "Commit"
    /\ last.err = Nil
    /\ tx.lowOffset > 0
    /\ begun # <<>>
    /\ Slice(data, tx.lowOffset, tx.highOffset) # Slice(begun, tx.lowOffset, tx.highOffset)
    /\ Slice(data, 0, tx.lowOffset) = Slice(begun, 0, tx.lowOffset)


\* C39: a Commit of the mapping's transaction issued after Mapping.Close
\* stores no byte through tx.original and does not try to: no write to the
\* released region, and no fault on it.
C39_NoWriteAfterClose ==
    [][(mphase = "closed" /\ last'.op = "Commit" /\ last' # last) =>
          (last'.n = 0 /\ last'.out = <<>> /\ last'.err # SegFault)]_vars


\* C40: when Open has returned an error, none of the handles that call
\* acquired is still open.
C40_FailedOpenReleases ==
    (mlast.op = "Open" /\ mlast.err # Nil) =>
        (\A h \in host.handles : h[1] # host.opens)

====
